---- MODULE Spec2Model ----
(***************************************************************************)
(* The proxy pool of proxy_switcher/chain.py: the registry `Proxies` with  *)
(* its file source and mtime-driven refresh, and the scheduler `_Pool`     *)
(* with acquire / release, cooldown, blacklist and per-proxy statistics.   *)
(* Threads call _Pool.acquire and _Pool.release; every step that runs      *)
(* under the pool's condition lock is one atomic action, and a thread      *)
(* blocked in Condition.wait is a separate position of that thread.        *)
(***************************************************************************)
EXTENDS Integers, Sequences, FiniteSets, TLC

\* ------------------------------------------------------------------ bounds
MaxTime == 2          \* the clock runs from 0 to MaxTime
MaxRewrites == 1      \* how often the proxy file is rewritten
MaxReleases == 2      \* effective releases the statistics record (ok + fail)
MaxSmartReleases == 3 \* the same, in the pools with smart holdout

\* ------------------------------------------------------------- input sets
Addr == {"a", "b", "c"}
Threads == {"t1", "t2"}
None == 0 - 1         \* Python's None where a number is expected
Absent == 0 - 2       \* a key that is missing from a dict
NoProxy == "none"     \* no address (a thread holding nothing)
Holdouts == {None, 1}
Timeouts == {None, 1}
Reasons == {"ban"}
inf == 1000000        \* float('inf') of _uptime

\* the lists the proxy file holds, at the start and after a rewrite; no list
\* names an address twice (ProxyList.entries is a sequence of unique
\* addresses)
Lists == {<<"a", "b">>, <<"b", "c">>}
InitLists == {<<"a">>, <<"a", "b">>}

\* the Chains that can be constructed, and the gateway a Chain can be given
Chains == {"c1", "c2", "c3"}
Gateways == {NoProxy, "gw"}

\* what read_url ends with when every retry has failed
HTTPError == <<"urllib.error.HTTPError">>
SocketTimeout == <<"socket.timeout">>

VARIABLES
    file,               \* what reading the source yields: the lines of
                        \* proxies_file or of the response of proxies_url,
                        \* or the error read_url ends with
    mtime,              \* os.stat(proxies_file).st_mtime; for proxies_url
                        \* the number of times its answer has changed
    proxies,            \* Proxies._proxies
    modified_at,        \* Proxies._modified_at
    last_auto_refresh,  \* Proxies._last_auto_refresh
    options,            \* the source kind and the options of Proxies, and
                        \* the pool options of Proxies.get_pool / _Pool.__init__
    free,               \* _Pool._free, a deque
    used,               \* _Pool._used, a set
    cooling_down,       \* _Pool._cooling_down, ordered dict address -> deadline
    blacklist,          \* _Pool._blacklist, ordered dict address -> reason
    stats,              \* _Pool._stats, dict address -> statistics
    proxies_modified_at,\* _Pool._proxies_modified_at
    observed_entries,   \* set(Proxies.proxies) as the pool last read it
    now,                \* time.time() / time.perf_counter()
    pc,                 \* per thread: "idle", "waiting" (inside
                        \* Condition.wait), or the statement it has reached
    held,               \* per thread: the address it acquired and has not released
    timeout,            \* per waiting thread: the timeout argument of acquire
    start,              \* per waiting thread: `start` of acquire
    wake_at,            \* per waiting thread: when its Condition.wait times out
    notified,           \* per waiting thread: Condition.notify reached it
    last,               \* the last operation and its outcome
    other,              \* a second registry with its pool: the fields of State
    chain,              \* per Chain: the arguments it was constructed with
                        \* and the thread that owns it
    _current_pool_proxy,\* Chain._current_pool_proxy
    __path,             \* Chain.__path
    finalized,          \* the Chains whose finalizer has run
    _chains,            \* MultiChain._chains, a deque of Chains (empty: there
                        \* is no MultiChain)
    multi,              \* MultiChain: its owner, _pool_acquire_timeout and
                        \* `start` of the running _self_auto_rotate loop
    modification_time   \* per thread inside _auto_refresh: the local
                        \* modification_time it read with os.stat

vars == <<file, mtime, proxies, modified_at, last_auto_refresh, options,
          free, used, cooling_down, blacklist, stats, proxies_modified_at,
          observed_entries, now, pc, held, timeout, start, wake_at, notified,
          last, other, chain, _current_pool_proxy, __path, finalized, _chains,
          multi, modification_time>>

\* the Chains and the MultiChain
chainvars == <<other, chain, _current_pool_proxy, __path, finalized, _chains, multi>>

\* ----------------------------------------------------------------- helpers
Range(s) == {s[i] : i \in DOMAIN s}
Keys(d) == {d[i][1] : i \in DOMAIN d}
IndexOf(d, k) == CHOOSE i \in DOMAIN d : d[i][1] = k
Get(d, k) == d[IndexOf(d, k)][2]
Pop(d, k) == SelectSeq(d, LAMBDA e : e[1] # k)
\* OrderedDict.__setitem__: a new key goes to the end, an old key keeps its place
Put(d, k, v) ==
    IF k \in Keys(d)
    THEN [i \in DOMAIN d |-> IF d[i][1] = k THEN <<k, v>> ELSE d[i]]
    ELSE Append(d, <<k, v>>)
\* JsonLastUpdatedOrderedDict.__setitem__: the key always moves to the end
PutLast(d, k, v) == Append(Pop(d, k), <<k, v>>)
Restrict(f, S) == [k \in DOMAIN f \cap S |-> f[k]]
Orders(S) == {s \in [1..Cardinality(S) -> S] : Range(s) = S}
NoDup(s) == \A i, j \in DOMAIN s : s[i] = s[j] => i = j

\* the registry and the pool as one record, so that the steps of one
\* handler can be chained
State ==
    [file |-> file, mtime |-> mtime, proxies |-> proxies,
     modified_at |-> modified_at, last_auto_refresh |-> last_auto_refresh,
     free |-> free, used |-> used, cooling_down |-> cooling_down,
     blacklist |-> blacklist, stats |-> stats,
     proxies_modified_at |-> proxies_modified_at,
     observed_entries |-> observed_entries, notify |-> FALSE,
     raised |-> "None"]

\* ---------------------------------------------------------------- Proxies
_get_missing(target, source) == target \ (target \cap source)

_cleanup_internals(S, P) ==
    [S EXCEPT
        !.blacklist = SelectSeq(@, LAMBDA e : e[1] \notin _get_missing(Keys(S.blacklist), P)),
        !.cooling_down = SelectSeq(@, LAMBDA e : e[1] \notin _get_missing(Keys(S.cooling_down), P)),
        !.stats = Restrict(@, DOMAIN S.stats \ _get_missing(DOMAIN S.stats, P))]

\* read_file: the lines of the file; no slice, type or shuffle option is set
_load(S) == S.file

\* refresh that leaves _modified_at as it is
refresh_same(S) ==
    LET loaded == _load(S)
        S1 == _cleanup_internals([S EXCEPT !.proxies = loaded], Range(loaded))
    IN  IF loaded = HTTPError THEN S
        ELSE IF loaded = SocketTimeout THEN [S EXCEPT !.raised = "socket.timeout"]
        ELSE S1

\* refresh catches HTTPError and hands it to the problem sink; any other
\* error of _load leaves refresh as an exception (S.raised)
refresh(S) ==
    LET loaded == _load(S)
        S1 == _cleanup_internals([S EXCEPT !.proxies = loaded], Range(loaded))
    IN  IF loaded = HTTPError THEN S
        ELSE IF loaded = SocketTimeout THEN [S EXCEPT !.raised = "socket.timeout"]
        ELSE [S1 EXCEPT !.modified_at = S.modified_at + 1]

_auto_refresh(S) ==
    IF ~options.proxies_url
    THEN IF S.mtime = S.last_auto_refresh
         THEN S
         ELSE [refresh(S) EXCEPT !.last_auto_refresh = S.mtime]
    ELSE IF options.auto_refresh_period = None THEN S
    ELSE IF S.last_auto_refresh # None
            /\ now - S.last_auto_refresh < options.auto_refresh_period
    THEN S
    ELSE IF refresh(S).raised # "None" THEN refresh(S)
    ELSE [refresh(S) EXCEPT !.last_auto_refresh = now]

\* ------------------------------------------------------------------ _Pool
\* _cool_released that returns blacklisted addresses to free as well
_cool_released_all(S) ==
    LET cooled == SelectSeq(S.cooling_down, LAMBDA e : now >= e[2])
    IN  [S EXCEPT
            !.cooling_down = SelectSeq(@, LAMBDA e : ~(now >= e[2])),
            !.free = @ \o [i \in DOMAIN cooled |-> cooled[i][1]]]

_cool_released(S) ==
    LET cooled == SelectSeq(S.cooling_down, LAMBDA e : now >= e[2])
        back == SelectSeq(cooled, LAMBDA e : e[1] \notin Keys(S.blacklist))
    IN  [S EXCEPT
            !.cooling_down = SelectSeq(@, LAMBDA e : ~(now >= e[2])),
            !.free = @ \o [i \in DOMAIN back |-> back[i][1]]]

_is_proxies_changed(S) == S.modified_at # S.proxies_modified_at

\* _remove_outdated that leaves free as it is
_remove_outdated_free(S) ==
    LET full_list == Range(S.proxies)
        bl == SelectSeq(S.blacklist, LAMBDA e : e[1] \notin _get_missing(Keys(S.blacklist), full_list))
        cd == SelectSeq(S.cooling_down, LAMBDA e : e[1] \notin _get_missing(Keys(S.cooling_down), full_list))
        us == S.used \ _get_missing(S.used, full_list)
        st == Restrict(S.stats, DOMAIN S.stats \ _get_missing(DOMAIN S.stats, full_list))
    IN  {[S EXCEPT !.blacklist = bl, !.cooling_down = cd, !.used = us,
                   !.stats = st,
                   !.proxies_modified_at = S.modified_at,
                   !.observed_entries = full_list]}

\* _remove_outdated that leaves used as it is
_remove_outdated_used(S) ==
    LET full_list == Range(S.proxies)
        bl == SelectSeq(S.blacklist, LAMBDA e : e[1] \notin _get_missing(Keys(S.blacklist), full_list))
        cd == SelectSeq(S.cooling_down, LAMBDA e : e[1] \notin _get_missing(Keys(S.cooling_down), full_list))
        us == S.used
        st == Restrict(S.stats, DOMAIN S.stats \ _get_missing(DOMAIN S.stats, full_list))
        fr == {p \in full_list : p \notin us /\ p \notin Keys(bl) /\ p \notin Keys(cd)}
        old_free == Range(S.free)
        new_free == old_free \cap fr
        S1 == [S EXCEPT !.blacklist = bl, !.cooling_down = cd, !.used = us,
                        !.stats = st,
                        !.proxies_modified_at = S.modified_at,
                        !.observed_entries = full_list]
    IN  IF old_free \ new_free # {}
        THEN {[S1 EXCEPT !.free = order] : order \in Orders(new_free)}
        ELSE {S1}

\* set iteration order is arbitrary: every order of the rebuilt free is possible
_remove_outdated(S) ==
    LET full_list == Range(S.proxies)
        bl == SelectSeq(S.blacklist, LAMBDA e : e[1] \notin _get_missing(Keys(S.blacklist), full_list))
        cd == SelectSeq(S.cooling_down, LAMBDA e : e[1] \notin _get_missing(Keys(S.cooling_down), full_list))
        us == S.used \ _get_missing(S.used, full_list)
        st == Restrict(S.stats, DOMAIN S.stats \ _get_missing(DOMAIN S.stats, full_list))
        fr == {p \in full_list : p \notin us /\ p \notin Keys(bl) /\ p \notin Keys(cd)}
        old_free == Range(S.free)
        new_free == old_free \cap fr
        S1 == [S EXCEPT !.blacklist = bl, !.cooling_down = cd, !.used = us,
                        !.stats = st,
                        !.proxies_modified_at = S.modified_at,
                        !.observed_entries = full_list]
    IN  IF old_free \ new_free # {}
        THEN {[S1 EXCEPT !.free = order] : order \in Orders(new_free)}
        ELSE {S1}

NoStat == [uptime |-> <<0, 0>>, last_holdout |-> Absent, last_good_holdout |-> Absent]

\* _update_stats with `ok += 1` outside the test of bad: a bad release
\* counts as ok and as fail
_update_stats_both(S, proxy, bad, holdout) ==
    LET proxy_stat == IF proxy \in DOMAIN S.stats THEN S.stats[proxy] ELSE NoStat
        ok == proxy_stat.uptime[1] + 1
        fail == proxy_stat.uptime[2] + (IF ~bad THEN 0 ELSE 1)
        lgh == proxy_stat.last_good_holdout
        new_stat ==
            [uptime |-> <<ok, fail>>,
             last_holdout |-> holdout,
             last_good_holdout |->
                IF ~bad \/ (holdout # None /\ holdout >= (IF lgh \in {None, Absent} THEN 0 ELSE lgh))
                THEN holdout ELSE lgh]
    IN  [S EXCEPT !.stats = [k \in DOMAIN S.stats \cup {proxy} |->
                                IF k = proxy THEN new_stat ELSE S.stats[k]]]

\* _update_stats that records last_good_holdout only on a good release
_update_stats_good_only(S, proxy, bad, holdout) ==
    LET proxy_stat == IF proxy \in DOMAIN S.stats THEN S.stats[proxy] ELSE NoStat
        ok == proxy_stat.uptime[1] + (IF ~bad THEN 1 ELSE 0)
        fail == proxy_stat.uptime[2] + (IF ~bad THEN 0 ELSE 1)
        lgh == proxy_stat.last_good_holdout
        new_stat ==
            [uptime |-> <<ok, fail>>,
             last_holdout |-> holdout,
             last_good_holdout |-> IF ~bad THEN holdout ELSE lgh]
    IN  [S EXCEPT !.stats = [k \in DOMAIN S.stats \cup {proxy} |->
                                IF k = proxy THEN new_stat ELSE S.stats[k]]]

_update_stats(S, proxy, bad, holdout) ==
    LET proxy_stat == IF proxy \in DOMAIN S.stats THEN S.stats[proxy] ELSE NoStat
        ok == proxy_stat.uptime[1] + (IF ~bad THEN 1 ELSE 0)
        fail == proxy_stat.uptime[2] + (IF ~bad THEN 0 ELSE 1)
        lgh == proxy_stat.last_good_holdout
        new_stat ==
            [uptime |-> <<ok, fail>>,
             last_holdout |-> holdout,
             last_good_holdout |->
                IF ~bad \/ (holdout # None /\ holdout >= (IF lgh \in {None, Absent} THEN 0 ELSE lgh))
                THEN holdout ELSE lgh]
    IN  [S EXCEPT !.stats = [k \in DOMAIN S.stats \cup {proxy} |->
                                IF k = proxy THEN new_stat ELSE S.stats[k]]]

\* lo * 0.75, exact when lo is a multiple of 4
Times075(lo) == (lo * 3) \div 4

\* _get_next_holdout that halves the holdout after a good release
_get_next_holdout_half(S, proxy, bad) ==
    IF proxy \notin DOMAIN S.stats THEN None
    ELSE LET proxy_stat == S.stats[proxy]
             lo == proxy_stat.last_holdout
             last_good_holdout == IF proxy_stat.last_good_holdout = Absent
                                  THEN 0 ELSE proxy_stat.last_good_holdout
         IN  IF bad
             THEN IF lo < last_good_holdout THEN last_good_holdout ELSE lo * 2
             ELSE lo \div 2

_get_next_holdout(S, proxy, bad) ==
    IF proxy \notin DOMAIN S.stats THEN None
    ELSE LET proxy_stat == S.stats[proxy]
             lo == proxy_stat.last_holdout
             last_good_holdout == IF proxy_stat.last_good_holdout = Absent
                                  THEN 0 ELSE proxy_stat.last_good_holdout
         IN  IF bad
             THEN IF lo < last_good_holdout THEN last_good_holdout ELSE lo * 2
             ELSE Times075(lo)

\* Python's `x or y`: None and 0 are false
Or(x, y) == IF x = None \/ x = 0 THEN y ELSE x

_uptime(S, p) ==
    IF p \in DOMAIN S.stats
    THEN LET ok == S.stats[p].uptime[1]
             failed == S.stats[p].uptime[2]
         IN  IF failed # 0 THEN ok \div failed ELSE ok
    ELSE inf

\* Rescued without the `if p not in cooling_down` filter
Rescued_cooling(S) ==
    LET bl == S.blacklist
        cand == DOMAIN bl
    IN  IF cand = {} THEN NoProxy
        ELSE bl[CHOOSE i \in cand : \A j \in cand :
                    \/ _uptime(S, bl[i][1]) > _uptime(S, bl[j][1])
                    \/ (_uptime(S, bl[i][1]) = _uptime(S, bl[j][1]) /\ i <= j)][1]

\* Rescued without the sort: the first blacklisted address that is not
\* cooling
Rescued_first(S) ==
    LET bl == S.blacklist
        cand == {i \in DOMAIN bl : bl[i][1] \notin Keys(S.cooling_down)}
    IN  IF cand = {} THEN NoProxy
        ELSE bl[CHOOSE i \in cand : \A j \in cand : i <= j][1]

\* next(p for p in sorted(blacklist, key=_uptime, reverse=True)
\*      if p not in cooling_down): the stable sort keeps insertion order
\* among equal keys
Rescued(S) ==
    LET bl == S.blacklist
        cand == {i \in DOMAIN bl : bl[i][1] \notin Keys(S.cooling_down)}
    IN  IF cand = {} THEN NoProxy
        ELSE bl[CHOOSE i \in cand : \A j \in cand :
                    \/ _uptime(S, bl[i][1]) > _uptime(S, bl[j][1])
                    \/ (_uptime(S, bl[i][1]) = _uptime(S, bl[j][1]) /\ i <= j)][1]

\* Take that leaves the address it returns in free
Take_nopop(S) ==
    IF S.free # <<>>
    THEN [S |-> [S EXCEPT !.used = @ \cup {Head(S.free)}],
          ret |-> Head(S.free), how |-> "free"]
    ELSE IF S.blacklist # <<>> /\ Rescued(S) # NoProxy
    THEN [S |-> [S EXCEPT !.blacklist = Pop(@, Rescued(S)),
                          !.used = @ \cup {Rescued(S)}],
          ret |-> Rescued(S), how |-> "blacklist"]
    ELSE [S |-> S, ret |-> NoProxy, how |-> "wait"]

\* Take that looks at the blacklist before it looks at free
Take_blacklist_first(S) ==
    IF S.blacklist # <<>> /\ Rescued(S) # NoProxy
    THEN [S |-> [S EXCEPT !.blacklist = Pop(@, Rescued(S)),
                          !.used = @ \cup {Rescued(S)}],
          ret |-> Rescued(S), how |-> "blacklist"]
    ELSE IF S.free # <<>>
    THEN [S |-> [S EXCEPT !.free = Tail(@), !.used = @ \cup {Head(S.free)}],
          ret |-> Head(S.free), how |-> "free"]
    ELSE [S |-> S, ret |-> NoProxy, how |-> "wait"]

\* Take whose rescue empties the blacklist
Take_clear(S) ==
    IF S.free # <<>>
    THEN [S |-> [S EXCEPT !.free = Tail(@), !.used = @ \cup {Head(S.free)}],
          ret |-> Head(S.free), how |-> "free"]
    ELSE IF S.blacklist # <<>> /\ Rescued(S) # NoProxy
    THEN [S |-> [S EXCEPT !.blacklist = <<>>,
                          !.used = @ \cup {Rescued(S)}],
          ret |-> Rescued(S), how |-> "blacklist"]
    ELSE [S |-> S, ret |-> NoProxy, how |-> "wait"]

\* Take that pops free from the back (deque.pop in place of popleft)
Take_lifo(S) ==
    IF S.free # <<>>
    THEN [S |-> [S EXCEPT !.free = SubSeq(@, 1, Len(@) - 1),
                          !.used = @ \cup {S.free[Len(S.free)]}],
          ret |-> S.free[Len(S.free)], how |-> "free"]
    ELSE IF S.blacklist # <<>> /\ Rescued(S) # NoProxy
    THEN [S |-> [S EXCEPT !.blacklist = Pop(@, Rescued(S)),
                          !.used = @ \cup {Rescued(S)}],
          ret |-> Rescued(S), how |-> "blacklist"]
    ELSE [S |-> S, ret |-> NoProxy, how |-> "wait"]

\* the part of the loop of acquire that takes an address, after the
\* reconciliation and the promotion of cooled addresses:
\* [S |-> state, ret |-> address or NoProxy, how |-> where it came from]
Take(S) ==
    IF S.free # <<>>
    THEN [S |-> [S EXCEPT !.free = Tail(@), !.used = @ \cup {Head(S.free)}],
          ret |-> Head(S.free), how |-> "free"]
    ELSE IF S.blacklist # <<>> /\ Rescued(S) # NoProxy
    THEN [S |-> [S EXCEPT !.blacklist = Pop(@, Rescued(S)),
                          !.used = @ \cup {Rescued(S)}],
          ret |-> Rescued(S), how |-> "blacklist"]
    ELSE [S |-> S, ret |-> NoProxy, how |-> "wait"]

\* the head of the loop of acquire: reconcile with a changed list, then
\* promote the cooled addresses
Prepare(S) ==
    LET S1 == _auto_refresh(S)
        S2s == IF _is_proxies_changed(S1) THEN _remove_outdated(S1) ELSE {S1}
    IN  IF S1.raised # "None" THEN {S1}
        ELSE {_cool_released(S2) : S2 \in S2s}

\* one pass of the `while True` of acquire up to the return or the wait,
\* or up to the exception that leaves acquire
Iteration(S) ==
    {IF M.raised # "None" THEN [S |-> M, ret |-> NoProxy, how |-> M.raised] ELSE Take(M) :
        M \in Prepare(S)}

\* EffectiveHoldout that does not look at force_defaults
EffectiveHoldout_noforce(S, proxy, bad, holdout_arg) ==
    LET holdout == IF holdout_arg = None
                   THEN (IF ~bad THEN options.default_holdout ELSE options.default_bad_holdout)
                   ELSE holdout_arg
        _holdout == Or(_get_next_holdout(S, proxy, bad), Or(holdout, options.smart_holdout_start))
    IN  IF options.smart_holdout
        THEN IF _holdout < options.smart_holdout_min THEN options.smart_holdout_min
             ELSE IF _holdout > options.smart_holdout_max THEN options.smart_holdout_max
             ELSE IF options.smart_holdout_min > _holdout THEN options.smart_holdout_min ELSE _holdout
        ELSE holdout

\* EffectiveHoldout that prefers smart_holdout_start to the caller's holdout
EffectiveHoldout_start(S, proxy, bad, holdout_arg) ==
    LET holdout == IF holdout_arg = None \/ options.force_defaults
                   THEN (IF ~bad THEN options.default_holdout ELSE options.default_bad_holdout)
                   ELSE holdout_arg
        _holdout == Or(_get_next_holdout(S, proxy, bad), Or(options.smart_holdout_start, holdout))
    IN  IF options.smart_holdout
        THEN IF _holdout < options.smart_holdout_min THEN options.smart_holdout_min
             ELSE IF _holdout > options.smart_holdout_max THEN options.smart_holdout_max
             ELSE IF options.smart_holdout_min > _holdout THEN options.smart_holdout_min ELSE _holdout
        ELSE holdout

\* EffectiveHoldout without the upper clamp
EffectiveHoldout_noclamp(S, proxy, bad, holdout_arg) ==
    LET holdout == IF holdout_arg = None \/ options.force_defaults
                   THEN (IF ~bad THEN options.default_holdout ELSE options.default_bad_holdout)
                   ELSE holdout_arg
        _holdout == Or(_get_next_holdout(S, proxy, bad), Or(holdout, options.smart_holdout_start))
    IN  IF options.smart_holdout
        THEN IF _holdout < options.smart_holdout_min THEN options.smart_holdout_min
             ELSE _holdout
        ELSE holdout

\* the holdout release puts the address to rest for
EffectiveHoldout(S, proxy, bad, holdout_arg) ==
    LET holdout == IF holdout_arg = None \/ options.force_defaults
                   THEN (IF ~bad THEN options.default_holdout ELSE options.default_bad_holdout)
                   ELSE holdout_arg
        _holdout == Or(_get_next_holdout(S, proxy, bad), Or(holdout, options.smart_holdout_start))
    IN  IF options.smart_holdout
        THEN IF _holdout < options.smart_holdout_min THEN options.smart_holdout_min
             ELSE IF _holdout > options.smart_holdout_max THEN options.smart_holdout_max
             ELSE IF options.smart_holdout_min > _holdout THEN options.smart_holdout_min ELSE _holdout
        ELSE holdout

\* release without the `proxy not in self._used` test
release_unchecked(S, proxy, bad, holdout_arg, bad_reason) ==
    LET holdout == EffectiveHoldout(S, proxy, bad, holdout_arg)
        S1 == [S EXCEPT !.used = @ \ {proxy}]
        S2 == IF holdout # None
              THEN [S1 EXCEPT !.cooling_down = Put(@, proxy, now + holdout)]
              ELSE S1
        S3 == IF bad
              THEN [S2 EXCEPT !.blacklist = PutLast(@, proxy, bad_reason)]
              ELSE IF holdout = None
              THEN [S2 EXCEPT !.free = Append(@, proxy), !.notify = TRUE]
              ELSE S2
    IN  _update_stats(S3, proxy, bad, holdout)

\* release that puts the address at the front of free
release_front(S, proxy, bad, holdout_arg, bad_reason) ==
    IF proxy \notin S.used THEN S
    ELSE LET holdout == EffectiveHoldout(S, proxy, bad, holdout_arg)
             S1 == [S EXCEPT !.used = @ \ {proxy}]
             S2 == IF holdout # None
                   THEN [S1 EXCEPT !.cooling_down = Put(@, proxy, now + holdout)]
                   ELSE S1
             S3 == IF bad
                   THEN [S2 EXCEPT !.blacklist = PutLast(@, proxy, bad_reason)]
                   ELSE IF holdout = None
                   THEN [S2 EXCEPT !.free = <<proxy>> \o @, !.notify = TRUE]
                   ELSE S2
         IN  _update_stats(S3, proxy, bad, holdout)

\* release that returns an address to free although it has to cool down
release_cooling_free(S, proxy, bad, holdout_arg, bad_reason) ==
    IF proxy \notin S.used THEN S
    ELSE LET holdout == EffectiveHoldout(S, proxy, bad, holdout_arg)
             S1 == [S EXCEPT !.used = @ \ {proxy}]
             S2 == IF holdout # None
                   THEN [S1 EXCEPT !.cooling_down = Put(@, proxy, now + holdout)]
                   ELSE S1
             S3 == IF bad
                   THEN [S2 EXCEPT !.blacklist = PutLast(@, proxy, bad_reason)]
                   ELSE [S2 EXCEPT !.free = Append(@, proxy), !.notify = TRUE]
         IN  _update_stats(S3, proxy, bad, holdout)

\* release with `if holdout is None` in place of `elif holdout is None`: a
\* bad address without holdout goes back to free as well
release_bad_free(S, proxy, bad, holdout_arg, bad_reason) ==
    IF proxy \notin S.used THEN S
    ELSE LET holdout == EffectiveHoldout(S, proxy, bad, holdout_arg)
             S1 == [S EXCEPT !.used = @ \ {proxy}]
             S2 == IF holdout # None
                   THEN [S1 EXCEPT !.cooling_down = Put(@, proxy, now + holdout)]
                   ELSE S1
             S3 == IF bad
                   THEN [S2 EXCEPT !.blacklist = PutLast(@, proxy, bad_reason)]
                   ELSE S2
             S4 == IF holdout = None
                   THEN [S3 EXCEPT !.free = Append(@, proxy), !.notify = TRUE]
                   ELSE S3
         IN  _update_stats(S4, proxy, bad, holdout)

release(S, proxy, bad, holdout_arg, bad_reason) ==
    IF proxy \notin S.used THEN S
    ELSE LET holdout == EffectiveHoldout(S, proxy, bad, holdout_arg)
             S1 == [S EXCEPT !.used = @ \ {proxy}]
             S2 == IF holdout # None
                   THEN [S1 EXCEPT !.cooling_down = Put(@, proxy, now + holdout)]
                   ELSE S1
             S3 == IF bad
                   THEN [S2 EXCEPT !.blacklist = PutLast(@, proxy, bad_reason)]
                   ELSE IF holdout = None
                   THEN [S2 EXCEPT !.free = Append(@, proxy), !.notify = TRUE]
                   ELSE S2
         IN  _update_stats(S3, proxy, bad, holdout)

\* --------------------------------------------------------------- actions
Commit(S) ==
    /\ file' = S.file
    /\ mtime' = S.mtime
    /\ proxies' = S.proxies
    /\ modified_at' = S.modified_at
    /\ last_auto_refresh' = S.last_auto_refresh
    /\ free' = S.free
    /\ used' = S.used
    /\ cooling_down' = S.cooling_down
    /\ blacklist' = S.blacklist
    /\ stats' = S.stats
    /\ proxies_modified_at' = S.proxies_modified_at
    /\ observed_entries' = S.observed_entries

Idle(t) ==
    /\ pc' = [pc EXCEPT ![t] = "idle"]
    /\ timeout' = [timeout EXCEPT ![t] = None]
    /\ start' = [start EXCEPT ![t] = None]
    /\ wake_at' = [wake_at EXCEPT ![t] = None]
    /\ notified' = [notified EXCEPT ![t] = FALSE]

\* the end of one pass of the loop of acquire by thread t: return the
\* address, let the exception of the refresh through, or enter
\* Condition.wait(1) / Condition.wait(timeout)
Pass(t, r, tmo, st) ==
    /\ Commit(r.S)
    /\ IF r.ret # NoProxy
       THEN /\ Idle(t)
            /\ held' = [held EXCEPT ![t] = r.ret]
            /\ last' = [op |-> "acquire", p |-> r.ret, how |-> r.how]
       ELSE IF r.how # "wait"
       THEN /\ Idle(t)
            /\ held' = held
            /\ last' = [op |-> "error", p |-> NoProxy, how |-> r.how]
       ELSE /\ pc' = [pc EXCEPT ![t] = "waiting"]
            /\ timeout' = [timeout EXCEPT ![t] = tmo]
            /\ start' = [start EXCEPT ![t] = st]
            /\ wake_at' = [wake_at EXCEPT ![t] =
                    IF r.S.cooling_down # <<>> THEN now + 1
                    ELSE IF tmo = None THEN None ELSE now + tmo]
            /\ notified' = [notified EXCEPT ![t] = FALSE]
            /\ held' = held
            /\ last' = [op |-> "wait", p |-> NoProxy, how |-> "wait"]

\* thread t calls acquire(timeout=tmo) and runs its first pass
Acquire(t, tmo) ==
    /\ pc[t] = "idle"
    /\ held[t] = NoProxy
    /\ tmo # None => now + 2 * tmo <= MaxTime
    /\ \E r \in Iteration(State) : Pass(t, r, tmo, IF tmo = None THEN None ELSE now)
    /\ UNCHANGED <<options, modification_time, now>>
    /\ UNCHANGED chainvars

\* the timeout test with >= in place of >
TimedOut_ge(tmo, st) == tmo # None /\ now - st >= tmo

\* `timeout is not None and time.perf_counter() - start > timeout`
TimedOut(tmo, st) == tmo # None /\ now - st > tmo

\* Condition.wait returns in thread t, notified or timed out; acquire
\* raises NoFreeProxies or runs the next pass
Wake(t) ==
    /\ pc[t] = "waiting"
    /\ notified[t] \/ (wake_at[t] # None /\ now >= wake_at[t])
    /\ IF TimedOut(timeout[t], start[t])
       THEN /\ Idle(t)
            /\ last' = [op |-> "NoFreeProxies", p |-> NoProxy, how |-> "raise"]
            /\ UNCHANGED <<file, mtime, proxies, modified_at, last_auto_refresh,
                           free, used, cooling_down, blacklist, stats,
                           proxies_modified_at, observed_entries, held>>
       ELSE \E r \in Iteration(State) : Pass(t, r, timeout[t], start[t])
    /\ UNCHANGED <<options, modification_time, now>>
    /\ UNCHANGED chainvars

\* Condition.notify(): one of the threads inside wait, if any
Notify(S) ==
    IF S.notify /\ \E w \in DOMAIN pc : pc[w] = "waiting" /\ ~notified[w]
    THEN \E w \in DOMAIN pc :
            /\ pc[w] = "waiting" /\ ~notified[w]
            /\ notified' = [notified EXCEPT ![w] = TRUE]
    ELSE notified' = notified

RECURSIVE Sum(_, _)
Sum(f, D) == IF D = {} THEN 0
             ELSE LET k == CHOOSE k \in D : TRUE IN f[k] + Sum(f, D \ {k})
\* the effective releases the statistics record
Released == Sum([k \in DOMAIN stats |-> stats[k].uptime[1] + stats[k].uptime[2]], DOMAIN stats)

\* where a release has put the address
Placed(S, proxy) ==
    IF proxy \in Range(S.free) THEN "free"
    ELSE IF proxy \in Keys(S.blacklist)
    THEN (IF proxy \in Keys(S.cooling_down) THEN "both" ELSE "blacklist")
    ELSE IF proxy \in Keys(S.cooling_down) THEN "cooling" ELSE "lost"

\* the smart holdout of this release is a whole number of time units
Exact(proxy, bad) ==
    (options.smart_holdout /\ ~bad /\ proxy \in DOMAIN stats)
        => (stats[proxy].last_holdout * 3) % 4 = 0

\* the holder t of an address releases it (the handle may be stale), as
\* long as the statistics record fewer than `bound` releases
ReleaseUpTo(bound, t, bad, holdout, bad_reason) ==
    /\ pc[t] = "idle"
    /\ held[t] # NoProxy
    /\ Released < bound
    /\ Exact(held[t], bad)
    /\ LET S == release(State, held[t], bad, holdout, bad_reason)
       IN  /\ Commit(S)
           /\ Notify(S)
           /\ last' = [op |-> "release", p |-> held[t],
                       how |-> IF held[t] \in used THEN Placed(S, held[t]) ELSE "stale"]
    /\ held' = [held EXCEPT ![t] = NoProxy]
    /\ UNCHANGED <<options, modification_time, now, pc, timeout, start, wake_at>>
    /\ UNCHANGED chainvars

Release(t, bad, holdout, bad_reason) == ReleaseUpTo(MaxReleases, t, bad, holdout, bad_reason)

SmartRelease(t, bad, holdout, bad_reason) ==
    ReleaseUpTo(MaxSmartReleases, t, bad, holdout, bad_reason)

\* release of an address that is not in used: a second release of the
\* same address, or of one that reconciliation has dropped
ReleaseAgain(t, proxy, bad, holdout, bad_reason) ==
    /\ pc[t] = "idle"
    /\ proxy \notin used
    /\ LET S == release(State, proxy, bad, holdout, bad_reason)
       IN  /\ Commit(S)
           /\ Notify(S)
    /\ last' = [op |-> "release", p |-> proxy, how |-> "again"]
    /\ UNCHANGED <<options, modification_time, now, pc, held, timeout, start, wake_at>>
    /\ UNCHANGED chainvars

\* thread t releases once more an address it has released before and that
\* another thread holds by now
ReleaseByNonHolder(t, proxy, bad, holdout, bad_reason) ==
    /\ pc[t] = "idle"
    /\ proxy \in used
    /\ held[t] # proxy
    /\ proxy \in DOMAIN stats
    /\ Released < MaxReleases
    /\ LET S == release(State, proxy, bad, holdout, bad_reason)
       IN  /\ Commit(S)
           /\ Notify(S)
    /\ last' = [op |-> "release", p |-> proxy, how |-> "nonholder"]
    /\ UNCHANGED <<options, modification_time, now, pc, held, timeout, start, wake_at>>
    /\ UNCHANGED chainvars

Tick ==
    /\ now < MaxTime
    /\ now' = now + 1
    /\ last' = [op |-> "tick", p |-> NoProxy, how |-> "tick"]
    /\ UNCHANGED <<file, mtime, proxies, modified_at, last_auto_refresh, options, modification_time,
                   free, used, cooling_down, blacklist, stats,
                   proxies_modified_at, observed_entries, pc, held, timeout,
                   start, wake_at, notified>>
    /\ UNCHANGED chainvars

\* time passes until the next cooling deadline
Sleep ==
    /\ \E i \in DOMAIN cooling_down : cooling_down[i][2] > now
    /\ now' = CHOOSE d \in {cooling_down[i][2] : i \in DOMAIN cooling_down} :
                /\ d > now
                /\ \A i \in DOMAIN cooling_down :
                        cooling_down[i][2] > now => d <= cooling_down[i][2]
    /\ last' = [op |-> "sleep", p |-> NoProxy, how |-> "tick"]
    /\ UNCHANGED <<file, mtime, proxies, modified_at, last_auto_refresh, options, modification_time,
                   free, used, cooling_down, blacklist, stats,
                   proxies_modified_at, observed_entries, pc, held, timeout,
                   start, wake_at, notified>>
    /\ UNCHANGED chainvars

\* the answer of proxies_url changes: another list, or a failure that
\* outlasts the retries of read_url
Answers == Lists \cup {HTTPError, SocketTimeout}

UrlAnswers(answer) ==
    /\ mtime < MaxRewrites
    /\ answer # file
    /\ file' = answer
    /\ mtime' = mtime + 1
    /\ last' = [op |-> "rewrite", p |-> NoProxy, how |-> "url"]
    /\ UNCHANGED <<proxies, modified_at, last_auto_refresh, options, modification_time,
                   free, used, cooling_down, blacklist, stats,
                   proxies_modified_at, observed_entries, now, pc, held,
                   timeout, start, wake_at, notified>>
    /\ UNCHANGED chainvars

\* Proxies.get_random_address() by a thread that is not inside acquire: the
\* registry refreshes, the pool is not involved (a call that finds nothing
\* to refresh changes nothing and is left out)
GetRandomAddress(t) ==
    /\ pc[t] = "idle"
    /\ _auto_refresh(State) # State
    /\ Commit(_auto_refresh(State))
    /\ last' = IF _auto_refresh(State).raised # "None"
               THEN [op |-> "error", p |-> NoProxy, how |-> _auto_refresh(State).raised]
               ELSE [op |-> "random", p |-> NoProxy, how |-> "refresh"]
    /\ UNCHANGED <<options, modification_time, now, pc, held, timeout, start, wake_at, notified>>
    /\ UNCHANGED chainvars

\* the proxy file is rewritten outside the program
RewriteFile(list) ==
    /\ mtime < MaxRewrites
    /\ list # file
    /\ file' = list
    /\ mtime' = mtime + 1
    /\ last' = [op |-> "rewrite", p |-> NoProxy, how |-> "file"]
    /\ UNCHANGED <<proxies, modified_at, last_auto_refresh, options, modification_time,
                   free, used, cooling_down, blacklist, stats,
                   proxies_modified_at, observed_entries, now, pc, held,
                   timeout, start, wake_at, notified>>
    /\ UNCHANGED chainvars

\* ------------------------------------------------------------------ locks
\* The threads that are inside `with self._cond` of acquire: the lock of
\* the condition is Proxies._cleanup_lock, an RLock. A thread at
\* "in_acquire" has entered it and stands at `with self._auto_refresh_lock`
\* of _auto_refresh; a waiting thread has given the lock up.
_cond_holders == {t \in Threads : pc[t] = "in_acquire"}

\* The threads that are inside `with self._auto_refresh_lock`: a thread at
\* "in_auto_refresh" stands at os.stat, a thread at "at_cleanup" has
\* assigned _proxies in refresh and stands at `with self._cleanup_lock` of
\* _cleanup_internals.
_auto_refresh_lock_holders == {t \in Threads : pc[t] \in {"in_auto_refresh", "at_cleanup"}}

\* what thread t is blocked on: "cond", "refresh" or "none"
WantsLock(t) ==
    IF pc[t] = "in_acquire" THEN "refresh"
    ELSE IF pc[t] = "at_cleanup" THEN "cond"
    ELSE "none"

HoldersOf(lock) ==
    IF lock = "cond" THEN _cond_holders
    ELSE IF lock = "refresh" THEN _auto_refresh_lock_holders
    ELSE {}

\* thread t calls acquire(timeout=tmo) and enters `with self._cond`
EnterAcquire(t, tmo) ==
    /\ pc[t] = "idle"
    /\ held[t] = NoProxy
    /\ tmo # None => now + 2 * tmo <= MaxTime
    /\ _cond_holders = {}
    /\ pc' = [pc EXCEPT ![t] = "in_acquire"]
    /\ timeout' = [timeout EXCEPT ![t] = tmo]
    /\ start' = [start EXCEPT ![t] = IF tmo = None THEN None ELSE now]
    /\ last' = [op |-> "enter", p |-> NoProxy, how |-> "acquire"]
    /\ UNCHANGED <<file, mtime, proxies, modified_at, last_auto_refresh, options,
                   free, used, cooling_down, blacklist, stats,
                   proxies_modified_at, observed_entries, now, held, wake_at,
                   notified, modification_time>>
    /\ UNCHANGED chainvars

\* inside the lock of the condition, thread t takes _auto_refresh_lock and
\* runs one pass of the loop of acquire: _auto_refresh, which gives the
\* refresh lock up again, the reconciliation, the promotion and the take;
\* the return and the wait give up the lock of the condition
LockedPass(t) ==
    /\ pc[t] = "in_acquire"
    /\ _auto_refresh_lock_holders = {}
    /\ \E r \in Iteration(State) : Pass(t, r, timeout[t], start[t])
    /\ UNCHANGED <<options, modification_time, now>>
    /\ UNCHANGED chainvars

\* Condition.wait of thread t returns once it has the lock again: acquire
\* raises NoFreeProxies or goes round its loop
LockedWake(t) ==
    /\ pc[t] = "waiting"
    /\ notified[t] \/ (wake_at[t] # None /\ now >= wake_at[t])
    /\ _cond_holders = {}
    /\ IF TimedOut(timeout[t], start[t])
       THEN /\ Idle(t)
            /\ last' = [op |-> "NoFreeProxies", p |-> NoProxy, how |-> "raise"]
       ELSE /\ pc' = [pc EXCEPT ![t] = "in_acquire"]
            /\ wake_at' = [wake_at EXCEPT ![t] = None]
            /\ notified' = [notified EXCEPT ![t] = FALSE]
            /\ last' = [op |-> "enter", p |-> NoProxy, how |-> "wake"]
            /\ UNCHANGED <<timeout, start>>
    /\ UNCHANGED <<file, mtime, proxies, modified_at, last_auto_refresh, options,
                   free, used, cooling_down, blacklist, stats,
                   proxies_modified_at, observed_entries, now, held,
                   modification_time>>
    /\ UNCHANGED chainvars

\* release runs inside `with self._cond`
LockedRelease(t, bad, holdout, bad_reason) ==
    /\ _cond_holders = {}
    /\ Release(t, bad, holdout, bad_reason)

\* thread t calls get_random_address and enters
\* `with self._auto_refresh_lock` of _auto_refresh
EnterAutoRefresh(t) ==
    /\ pc[t] = "idle"
    /\ _auto_refresh_lock_holders = {}
    /\ pc' = [pc EXCEPT ![t] = "in_auto_refresh"]
    /\ last' = [op |-> "enter", p |-> NoProxy, how |-> "random"]
    /\ UNCHANGED <<file, mtime, proxies, modified_at, last_auto_refresh, options,
                   free, used, cooling_down, blacklist, stats,
                   proxies_modified_at, observed_entries, now, held, timeout,
                   start, wake_at, notified, modification_time>>
    /\ UNCHANGED chainvars

\* inside _auto_refresh_lock: os.stat and the comparison with
\* _last_auto_refresh; if they differ, refresh assigns what _load returns
\* to _proxies and goes on to _cleanup_internals
StatAndLoad(t) ==
    /\ pc[t] = "in_auto_refresh"
    /\ IF mtime = last_auto_refresh
       THEN /\ pc' = [pc EXCEPT ![t] = "idle"]
            /\ last' = [op |-> "random", p |-> NoProxy, how |-> "same"]
            /\ UNCHANGED <<proxies, modification_time>>
       ELSE /\ pc' = [pc EXCEPT ![t] = "at_cleanup"]
            /\ proxies' = _load(State)
            /\ modification_time' = [modification_time EXCEPT ![t] = mtime]
            /\ last' = [op |-> "load", p |-> NoProxy, how |-> "random"]
    /\ UNCHANGED <<file, mtime, modified_at, last_auto_refresh, options,
                   free, used, cooling_down, blacklist, stats,
                   proxies_modified_at, observed_entries, now, held, timeout,
                   start, wake_at, notified>>
    /\ UNCHANGED chainvars

\* _cleanup_internals inside `with self._cleanup_lock`, then the rest of
\* refresh and of _auto_refresh: _modified_at and _last_auto_refresh are
\* set and the refresh lock is given up
CleanupAndStamp(t) ==
    /\ pc[t] = "at_cleanup"
    /\ _cond_holders = {}
    /\ Commit([_cleanup_internals(State, Range(proxies)) EXCEPT
                    !.modified_at = modified_at + 1,
                    !.last_auto_refresh = modification_time[t]])
    /\ pc' = [pc EXCEPT ![t] = "idle"]
    /\ modification_time' = [modification_time EXCEPT ![t] = None]
    /\ last' = [op |-> "random", p |-> NoProxy, how |-> "refresh"]
    /\ UNCHANGED <<options, now, held, timeout, start, wake_at, notified>>
    /\ UNCHANGED chainvars

\* ------------------------------------------------------------------ Chain
\* the registry and the pool Chain c was constructed with
PoolOf(c) == IF chain[c].proxies = 1 THEN State ELSE other

CommitTo(c, S) ==
    IF chain[c].proxies = 1
    THEN Commit(S) /\ other' = other
    ELSE /\ other' = [S EXCEPT !.notify = FALSE]
         /\ UNCHANGED <<file, mtime, proxies, modified_at, last_auto_refresh,
                        free, used, cooling_down, blacklist, stats,
                        proxies_modified_at, observed_entries>>

\* the Chain thread t works with: its own, or MultiChain._current
ActiveChain(t) ==
    IF t = multi.owner THEN _chains[Len(_chains)]
    ELSE CHOOSE c \in Chains : chain[c].owner = t /\ c \notin Range(_chains)

\* Condition.notify() of the pool of Chain c: one of the threads inside
\* wait on that pool's condition, if any
NotifyIn(c, S) ==
    LET W == {w \in Threads : /\ pc[w] = "waiting" /\ ~notified[w]
                              /\ chain[ActiveChain(w)].proxies = chain[c].proxies}
    IN  IF S.notify /\ W # {}
        THEN \E w \in W : notified' = [notified EXCEPT ![w] = TRUE]
        ELSE notified' = notified

\* the effective releases the statistics of a pool record
ReleasedIn(S) == Sum([k \in DOMAIN S.stats |-> S.stats[k].uptime[1] + S.stats[k].uptime[2]],
                     DOMAIN S.stats)

\* a release by Chain c stays within the bound on the releases that the
\* statistics of all pools record, and an acquire with a timeout within
\* the clock
CanRelease(c) ==
    _current_pool_proxy[c] \in PoolOf(c).used =>
        Released + (IF other = <<>> THEN 0 ELSE ReleasedIn(other)) < MaxReleases

TimeLeft(c) ==
    chain[c].pool_acquire_timeout # None =>
        now + 2 * chain[c].pool_acquire_timeout <= MaxTime

_build_path(c, proxy) ==
    (IF chain[c].proxy_gw # NoProxy THEN <<chain[c].proxy_gw>> ELSE <<>>) \o <<proxy>>

\* _release_pool_proxy that leaves _current_pool_proxy as it is
_release_pool_proxy_keep(c, bad, holdout, bad_reason) ==
    IF _current_pool_proxy[c] # NoProxy
    THEN [S |-> release(PoolOf(c), _current_pool_proxy[c], bad, holdout, bad_reason),
          cur |-> _current_pool_proxy[c]]
    ELSE [S |-> PoolOf(c), cur |-> _current_pool_proxy[c]]

\* [S |-> the pool after the release, cur |-> _current_pool_proxy after it]
_release_pool_proxy(c, bad, holdout, bad_reason) ==
    IF _current_pool_proxy[c] # NoProxy
    THEN [S |-> release(PoolOf(c), _current_pool_proxy[c], bad, holdout, bad_reason),
          cur |-> NoProxy]
    ELSE [S |-> PoolOf(c), cur |-> _current_pool_proxy[c]]

\* the end of one pass of the loop of acquire, called by
\* _acquire_pool_proxy of Chain c: with an address, `self.__path =
\* self._build_path(self._get_proxy())` completes
ChainPass(c, r, st) ==
    LET t == chain[c].owner
        tmo == chain[c].pool_acquire_timeout
    IN  /\ CommitTo(c, r.S)
        /\ IF r.ret # NoProxy
           THEN /\ Idle(t)
                /\ _current_pool_proxy' = [_current_pool_proxy EXCEPT ![c] = r.ret]
                /\ __path' = [__path EXCEPT ![c] = _build_path(c, r.ret)]
                /\ last' = [op |-> "acquire", p |-> r.ret, how |-> r.how]
           ELSE IF r.how # "wait"
           THEN /\ Idle(t)
                /\ UNCHANGED <<_current_pool_proxy, __path>>
                /\ last' = [op |-> "error", p |-> NoProxy, how |-> r.how]
           ELSE /\ pc' = [pc EXCEPT ![t] = "waiting"]
                /\ timeout' = [timeout EXCEPT ![t] = tmo]
                /\ start' = [start EXCEPT ![t] = st]
                /\ wake_at' = [wake_at EXCEPT ![t] =
                        IF r.S.cooling_down # <<>> THEN now + 1
                        ELSE IF tmo = None THEN None ELSE now + tmo]
                /\ notified' = [notified EXCEPT ![t] = FALSE]
                /\ UNCHANGED <<_current_pool_proxy, __path>>
                /\ last' = [op |-> "wait", p |-> NoProxy, how |-> "wait"]

\* Chain c exists, is not part of a MultiChain, and its owner is not
\* inside one of its operations
Usable(c) ==
    /\ chain[c].owner # "none"
    /\ c \notin finalized
    /\ c \notin Range(_chains)
    /\ pc[chain[c].owner] = "idle"

\* a _path that never uses the cached path
MustAcquire_always(c) == TRUE

\* `if not self.__path` of Chain._path
MustAcquire(c) == __path[c] = <<>>

\* Chain.get_path(): the cached path, or the first pass of an acquire
GetPath(c) ==
    /\ Usable(c)
    /\ IF MustAcquire(c)
       THEN /\ TimeLeft(c)
            /\ \E r \in Iteration(PoolOf(c)) :
                    ChainPass(c, r, IF chain[c].pool_acquire_timeout = None THEN None ELSE now)
       ELSE /\ last' = [op |-> "get_path", p |-> __path[c][Len(__path[c])], how |-> "cached"]
            /\ UNCHANGED <<file, mtime, proxies, modified_at, last_auto_refresh,
                           free, used, cooling_down, blacklist, stats,
                           proxies_modified_at, observed_entries, pc, timeout,
                           start, wake_at, notified, other, _current_pool_proxy,
                           __path>>
    /\ UNCHANGED <<options, modification_time, now, held, chain, finalized, _chains, multi>>

\* switch without `self.__path.clear()`
switch_lazy_keep_path(c, bad, holdout, bad_reason) ==
    /\ LET r == _release_pool_proxy(c, bad, holdout, bad_reason)
       IN  /\ CommitTo(c, r.S)
           /\ NotifyIn(c, r.S)
           /\ _current_pool_proxy' = [_current_pool_proxy EXCEPT ![c] = r.cur]
    /\ __path' = __path

\* Chain.switch(bad, holdout, bad_reason, lazy=True), and the first half of
\* a switch that is not lazy: the path is cleared and the address released
switch_lazy(c, bad, holdout, bad_reason) ==
    /\ LET r == _release_pool_proxy(c, bad, holdout, bad_reason)
       IN  /\ CommitTo(c, r.S)
           /\ NotifyIn(c, r.S)
           /\ _current_pool_proxy' = [_current_pool_proxy EXCEPT ![c] = r.cur]
    /\ __path' = [__path EXCEPT ![c] = <<>>]

\* Chain.switch(bad, holdout, bad_reason, lazy) by the owner of Chain c, up
\* to the end of the release; a switch that is not lazy goes on to acquire
Switch(c, bad, holdout, bad_reason, lazy) ==
    /\ Usable(c)
    /\ CanRelease(c)
    /\ ~lazy => TimeLeft(c)
    /\ switch_lazy(c, bad, holdout, bad_reason)
    /\ pc' = [pc EXCEPT ![chain[c].owner] = IF lazy THEN "idle" ELSE "switching"]
    /\ last' = [op |-> "switch", p |-> _current_pool_proxy[c],
                how |-> IF lazy THEN "lazy" ELSE "acquire",
                args |-> <<c, bad, holdout, bad_reason>>]
    /\ UNCHANGED <<options, modification_time, now, held, timeout, start, wake_at, chain, finalized,
                   _chains, multi>>

\* the second half of a switch that is not lazy: the first pass of the
\* acquire of _get_proxy
SwitchAcquire(c) ==
    /\ chain[c].owner # "none"
    /\ c \notin Range(_chains)
    /\ pc[chain[c].owner] = "switching"
    /\ \E r \in Iteration(PoolOf(c)) :
            ChainPass(c, r, IF chain[c].pool_acquire_timeout = None THEN None ELSE now)
    /\ UNCHANGED <<options, modification_time, now, held, chain, finalized, _chains, multi>>

\* Condition.wait returns in the owner of Chain c, inside the acquire of
\* get_path or switch: NoFreeProxies leaves the operation, or the next pass runs
ChainWake(c) ==
    LET t == chain[c].owner
    IN  /\ t # "none"
        /\ c \notin Range(_chains)
        /\ pc[t] = "waiting"
        /\ notified[t] \/ (wake_at[t] # None /\ now >= wake_at[t])
        /\ IF TimedOut(timeout[t], start[t])
           THEN /\ Idle(t)
                /\ last' = [op |-> "NoFreeProxies", p |-> NoProxy, how |-> "raise"]
                /\ UNCHANGED <<file, mtime, proxies, modified_at, last_auto_refresh,
                               free, used, cooling_down, blacklist, stats,
                               proxies_modified_at, observed_entries, other,
                               _current_pool_proxy, __path>>
           ELSE \E r \in Iteration(PoolOf(c)) : ChainPass(c, r, start[t])
        /\ UNCHANGED <<options, modification_time, now, held, chain, finalized, _chains, multi>>

\* Chain.finalize(), run by the finalizer of the Chain
Finalize(c) ==
    /\ Usable(c)
    /\ CanRelease(c)
    /\ LET r == _release_pool_proxy(c, FALSE, None, "None")
       IN  /\ CommitTo(c, r.S)
           /\ NotifyIn(c, r.S)
           /\ _current_pool_proxy' = [_current_pool_proxy EXCEPT ![c] = r.cur]
    /\ finalized' = finalized \cup {c}
    /\ last' = [op |-> "finalize", p |-> _current_pool_proxy[c], how |-> c]
    /\ UNCHANGED <<options, modification_time, now, pc, held, timeout, start, wake_at, chain, __path,
                   _chains, multi>>

\* ------------------------------------------------------------- MultiChain
\* a _rotate that leaves the ring as it is
_rotate_none(q) == q

\* deque.rotate(1): the last element moves to the front
_rotate(q) == <<q[Len(q)]>> \o SubSeq(q, 1, Len(q) - 1)

\* MultiChain._current
_current == _chains[Len(_chains)]

\* the test that lets NoFreeProxies leave the loop of _self_auto_rotate
LoopTimedOut == TimedOut(multi._pool_acquire_timeout, multi.start)

\* one call of the wrapped function in the loop of _self_auto_rotate by
\* thread t: the _path of the current Chain, cached or with the first pass
\* of an acquire
Attempt(t) ==
    IF MustAcquire(_current)
    THEN \E r \in Iteration(PoolOf(_current)) : ChainPass(_current, r, now)
    ELSE /\ Idle(t)
         /\ last' = [op |-> "get_path", p |-> __path[_current][Len(__path[_current])],
                     how |-> "cached"]
         /\ UNCHANGED <<file, mtime, proxies, modified_at, last_auto_refresh,
                        free, used, cooling_down, blacklist, stats,
                        proxies_modified_at, observed_entries, other,
                        _current_pool_proxy, __path>>

\* MultiChain.get_adapter / get_handler / wrap_session / wrap_module: the
\* loop of _self_auto_rotate starts and calls the function once
MultiCall(t) ==
    /\ t = multi.owner
    /\ pc[t] = "idle"
    /\ Attempt(t)
    /\ multi' = [multi EXCEPT !.start = IF pc'[t] = "idle" THEN None ELSE now]
    /\ UNCHANGED <<options, modification_time, now, held, chain, finalized, _chains>>

\* the loop of _self_auto_rotate calls the function again
MultiRetry(t) ==
    /\ t = multi.owner
    /\ pc[t] = "trying"
    /\ Attempt(t)
    /\ multi' = [multi EXCEPT !.start = IF pc'[t] = "idle" THEN None ELSE @]
    /\ UNCHANGED <<options, modification_time, now, held, chain, finalized, _chains>>

\* Condition.wait returns inside the acquire of the current Chain: the
\* next pass runs, or NoFreeProxies reaches _self_auto_rotate, which
\* rotates and then either raises or goes round the loop
MultiWake(t) ==
    /\ t = multi.owner
    /\ pc[t] = "waiting"
    /\ notified[t] \/ (wake_at[t] # None /\ now >= wake_at[t])
    /\ IF TimedOut(timeout[t], start[t])
       THEN /\ _chains' = _rotate(_chains)
            /\ pc' = [pc EXCEPT ![t] = IF LoopTimedOut THEN "idle" ELSE "trying"]
            /\ timeout' = [timeout EXCEPT ![t] = None]
            /\ start' = [start EXCEPT ![t] = None]
            /\ wake_at' = [wake_at EXCEPT ![t] = None]
            /\ notified' = [notified EXCEPT ![t] = FALSE]
            /\ last' = IF LoopTimedOut
                       THEN [op |-> "NoFreeProxies", p |-> NoProxy, how |-> "raise"]
                       ELSE [op |-> "rotate", p |-> NoProxy, how |-> "retry"]
            /\ UNCHANGED <<file, mtime, proxies, modified_at, last_auto_refresh,
                           free, used, cooling_down, blacklist, stats,
                           proxies_modified_at, observed_entries, other,
                           _current_pool_proxy, __path>>
       ELSE /\ \E r \in Iteration(PoolOf(_current)) : ChainPass(_current, r, start[t])
            /\ _chains' = _chains
    /\ multi' = [multi EXCEPT !.start = IF pc'[t] = "idle" THEN None ELSE @]
    /\ UNCHANGED <<options, modification_time, now, held, chain, finalized>>

\* MultiChain.switch that rotates before it switches the current Chain
MultiSwitch_rotate_first(t, bad, holdout, bad_reason, lazy) ==
    /\ t = multi.owner
    /\ pc[t] = "idle"
    /\ CanRelease(_rotate(_chains)[Len(_chains)])
    /\ switch_lazy(_rotate(_chains)[Len(_chains)], bad, holdout, bad_reason)
    /\ _chains' = _rotate(_chains)
    /\ pc' = [pc EXCEPT ![t] = IF lazy THEN "idle" ELSE "trying"]
    /\ multi' = [multi EXCEPT !.start = IF lazy THEN None ELSE now]
    /\ last' = [op |-> "multiswitch", p |-> _current_pool_proxy[_current],
                how |-> IF lazy THEN "lazy" ELSE "acquire",
                args |-> <<_current, bad, holdout, bad_reason>>]
    /\ UNCHANGED <<options, modification_time, now, held, timeout, start, wake_at, chain, finalized>>

\* MultiChain.switch without the switch of the current Chain: it only
\* rotates and, if not lazy, builds the path of the new current Chain
MultiSwitch_keep(t, bad, holdout, bad_reason, lazy) ==
    /\ t = multi.owner
    /\ pc[t] = "idle"
    /\ CanRelease(_current)
    /\ _chains' = _rotate(_chains)
    /\ pc' = [pc EXCEPT ![t] = IF lazy THEN "idle" ELSE "trying"]
    /\ multi' = [multi EXCEPT !.start = IF lazy THEN None ELSE now]
    /\ last' = [op |-> "multiswitch", p |-> _current_pool_proxy[_current],
                how |-> IF lazy THEN "lazy" ELSE "acquire",
                args |-> <<_current, bad, holdout, bad_reason>>]
    /\ UNCHANGED <<file, mtime, proxies, modified_at, last_auto_refresh,
                   free, used, cooling_down, blacklist, stats,
                   proxies_modified_at, observed_entries, notified, other,
                   _current_pool_proxy, __path>>
    /\ UNCHANGED <<options, modification_time, now, held, timeout, start, wake_at, chain, finalized>>

\* MultiChain.switch(bad, holdout, bad_reason, lazy): the lazy switch of
\* the current Chain and the rotation; a switch that is not lazy goes on
\* to _enforce_current_path_build
MultiSwitch(t, bad, holdout, bad_reason, lazy) ==
    /\ t = multi.owner
    /\ pc[t] = "idle"
    /\ CanRelease(_current)
    /\ switch_lazy(_current, bad, holdout, bad_reason)
    /\ _chains' = _rotate(_chains)
    /\ pc' = [pc EXCEPT ![t] = IF lazy THEN "idle" ELSE "trying"]
    /\ multi' = [multi EXCEPT !.start = IF lazy THEN None ELSE now]
    /\ last' = [op |-> "multiswitch", p |-> _current_pool_proxy[_current],
                how |-> IF lazy THEN "lazy" ELSE "acquire",
                args |-> <<_current, bad, holdout, bad_reason>>]
    /\ UNCHANGED <<options, modification_time, now, held, timeout, start, wake_at, chain, finalized>>

\* Proxies(proxies_file=...).get_pool(): the list is loaded and the pool built
NoOptions ==
    [smart_holdout |-> FALSE, smart_holdout_start |-> None,
     smart_holdout_min |-> 0, smart_holdout_max |-> None,
     default_holdout |-> None, default_bad_holdout |-> None,
     force_defaults |-> FALSE,
     proxies_url |-> FALSE, auto_refresh_period |-> None]

InitPoolOf(T, opts, list, persisted, banned) ==
    /\ file = list
    /\ mtime = 0
    /\ proxies = file
    /\ modified_at = 0
    /\ last_auto_refresh = None
    /\ options = opts
    /\ cooling_down = <<>>
    /\ blacklist = banned
    /\ stats = persisted
    /\ free = SelectSeq(proxies, LAMBDA p : p \notin Keys(blacklist) /\ p \notin Keys(cooling_down))
    /\ used = {}
    /\ proxies_modified_at = modified_at
    /\ observed_entries = Range(proxies)
    /\ now = 0
    /\ pc = [t \in T |-> "idle"]
    /\ held = [t \in T |-> NoProxy]
    /\ timeout = [t \in T |-> None]
    /\ start = [t \in T |-> None]
    /\ wake_at = [t \in T |-> None]
    /\ notified = [t \in T |-> FALSE]
    /\ modification_time = [t \in T |-> None]
    /\ last = [op |-> "init", p |-> NoProxy, how |-> "init"]

\* the pool is used by the threads of Threads
InitPoolFull(opts, list, persisted, banned) ==
    InitPoolOf(Threads, opts, list, persisted, banned)

\* no blacklist file, or an empty one
InitPoolWith(opts, list, persisted) == InitPoolFull(opts, list, persisted, <<>>)

\* a Chain that has not been constructed, and no MultiChain
NoChain ==
    [owner |-> "none", proxies |-> 0, proxy_gw |-> NoProxy, pool_acquire_timeout |-> None]

NoMulti == [owner |-> "none", _pool_acquire_timeout |-> None, start |-> None]

\* Chain.__init__ of the Chains in cfg: nothing is held, the path is empty
InitChains(cfg) ==
    /\ chain = cfg
    /\ _current_pool_proxy = [c \in Chains |-> NoProxy]
    /\ __path = [c \in Chains |-> <<>>]
    /\ finalized = {}

\* the pool is used directly, without Chains
NoChains ==
    /\ other = <<>>
    /\ InitChains([c \in Chains |-> NoChain])
    /\ _chains = <<>>
    /\ multi = NoMulti

\* no stats file: the statistics start empty
InitPool(opts, list) == InitPoolWith(opts, list, <<>>)

\* the option sets the pool is built with
PoolOptions ==
    {NoOptions,
     [NoOptions EXCEPT !.default_holdout = 1],
     [NoOptions EXCEPT !.default_bad_holdout = 1, !.force_defaults = TRUE],
     [NoOptions EXCEPT !.smart_holdout = TRUE, !.smart_holdout_start = 16,
                       !.smart_holdout_max = inf]}

Init == NoChains /\ \E list \in InitLists : InitPool(NoOptions, list)

\* pools built with default_holdout, default_bad_holdout and force_defaults
OptInit == NoChains /\ \E opts \in PoolOptions : InitPool(opts, <<"a", "b">>)

Next ==
    \/ \E t \in Threads, tmo \in Timeouts : Acquire(t, tmo)
    \/ \E t \in Threads : Wake(t)
    \/ \E t \in Threads, holdout \in Holdouts : Release(t, FALSE, holdout, "None")
    \/ \E t \in Threads, holdout \in Holdouts, r \in Reasons : Release(t, TRUE, holdout, r)
    \/ \E t \in Threads, proxy \in Addr, bad \in BOOLEAN :
            ReleaseAgain(t, proxy, bad, None, "None")
    \/ Tick
    \/ \E list \in Lists : RewriteFile(list)

Spec == Init /\ [][Next]_vars

OptSpec == OptInit /\ [][Next]_vars

\* the pool of a list that does not change
FairNext ==
    \/ \E t \in Threads, tmo \in Timeouts : Acquire(t, tmo)
    \/ \E t \in Threads : Wake(t)
    \/ \E t \in Threads, holdout \in Holdouts : Release(t, FALSE, holdout, "None")
    \/ \E t \in Threads, holdout \in Holdouts, r \in Reasons : Release(t, TRUE, holdout, r)
    \/ \E t \in Threads, proxy \in Addr, bad \in BOOLEAN :
            ReleaseAgain(t, proxy, bad, None, "None")
    \/ Tick

\* the registry is also used without the pool (get_random_address)
RegNext ==
    \/ Next
    \/ \E t \in Threads : GetRandomAddress(t)

RegSpec == Init /\ [][RegNext]_vars

\* Proxies(proxies_url=..., options={"auto_refresh_period": ...}): the list
\* was loaded when the pool was built, the answer of the URL changes later
UrlOptions == [NoOptions EXCEPT !.proxies_url = TRUE, !.auto_refresh_period = 1]

UrlInit == NoChains /\ InitPool(UrlOptions, <<"a">>)

UrlNext ==
    \/ \E t \in Threads, tmo \in Timeouts : Acquire(t, tmo)
    \/ \E t \in Threads : Wake(t)
    \/ \E t \in Threads, holdout \in Holdouts : Release(t, FALSE, holdout, "None")
    \/ \E t \in Threads, holdout \in Holdouts, r \in Reasons : Release(t, TRUE, holdout, r)
    \/ \E t \in Threads : GetRandomAddress(t)
    \/ Tick
    \/ \E answer \in Answers : UrlAnswers(answer)

UrlSpec == UrlInit /\ [][UrlNext]_vars

\* pools with smart holdout (smart_holdout_start is set): the holdouts are
\* longer than the clock of the other pools runs, so time also passes in
\* one step to the next deadline
SmartOptions ==
    {[NoOptions EXCEPT !.smart_holdout = TRUE, !.smart_holdout_start = 16,
                       !.smart_holdout_max = inf],
     [NoOptions EXCEPT !.smart_holdout = TRUE, !.smart_holdout_start = 16,
                       !.smart_holdout_min = 13, !.smart_holdout_max = 24],
     [NoOptions EXCEPT !.smart_holdout = TRUE, !.smart_holdout_start = 10,
                       !.smart_holdout_min = 1, !.smart_holdout_max = 1000],
     [NoOptions EXCEPT !.smart_holdout = TRUE, !.smart_holdout_start = 16,
                       !.smart_holdout_max = inf, !.default_holdout = 40]}

\* the statistics the stats file holds at the start: none, or those a pool
\* without smart holdout left after release(a, holdout=16) and
\* release(a, bad=True, holdout=8)
PersistedStats ==
    {<<>>,
     [p \in {"a"} |-> [uptime |-> <<1, 1>>, last_holdout |-> 8, last_good_holdout |-> 16]]}

SmartInit ==
    /\ NoChains
    /\ \E opts \in SmartOptions, persisted \in PersistedStats :
            InitPoolWith(opts, <<"a">>, persisted)

SmartNext ==
    \/ \E t \in Threads, tmo \in Timeouts : Acquire(t, tmo)
    \/ \E t \in Threads : Wake(t)
    \/ \E t \in Threads, holdout \in Holdouts : SmartRelease(t, FALSE, holdout, "None")
    \/ \E t \in Threads, holdout \in Holdouts, r \in Reasons : SmartRelease(t, TRUE, holdout, r)
    \/ Tick
    \/ Sleep

SmartSpec == SmartInit /\ [][SmartNext]_vars

\* the same pools (each with smart_holdout_min <= smart_holdout_max) with a
\* stats file that is empty at the start
FreshInit ==
    /\ NoChains
    /\ \E opts \in SmartOptions : InitPoolWith(opts, <<"a">>, <<>>)

FreshSpec == FreshInit /\ [][SmartNext]_vars

\* two threads, each with its own Chain(proxies, proxy_gw, use_pool=True,
\* pool_acquire_timeout) over the pool of one registry: one Chain with a
\* gateway and no timeout, one without gateway and with a timeout
ChainOptions(t, gw, tmo) ==
    [owner |-> t, proxies |-> 1, proxy_gw |-> gw, pool_acquire_timeout |-> tmo]

ChainInit ==
    /\ InitPool(NoOptions, <<"a", "b">>)
    /\ other = <<>>
    /\ InitChains([c \in Chains |->
            IF c = "c1" THEN ChainOptions("t1", "gw", None)
            ELSE IF c = "c2" THEN ChainOptions("t2", NoProxy, 1)
            ELSE NoChain])
    /\ _chains = <<>>
    /\ multi = NoMulti

ChainNext ==
    \/ \E c \in Chains : GetPath(c)
    \/ \E c \in Chains, holdout \in Holdouts, lazy \in BOOLEAN :
            Switch(c, FALSE, holdout, "None", lazy)
    \/ \E c \in Chains, holdout \in Holdouts, r \in Reasons, lazy \in BOOLEAN :
            Switch(c, TRUE, holdout, r, lazy)
    \/ \E c \in Chains : SwitchAcquire(c)
    \/ \E c \in Chains : ChainWake(c)
    \/ \E c \in Chains : Finalize(c)
    \/ Tick

ChainSpec == ChainInit /\ [][ChainNext]_vars

\* a second registry with the given list and its pool
InitOther(list) ==
    other = [file |-> list, mtime |-> 0, proxies |-> list, modified_at |-> 0,
             last_auto_refresh |-> None, free |-> list, used |-> {},
             cooling_down |-> <<>>, blacklist |-> <<>>, stats |-> <<>>,
             proxies_modified_at |-> 0, observed_entries |-> Range(list),
             notify |-> FALSE, raised |-> "None"]

\* the timeouts a MultiChain is constructed with
MultiTimeouts == {None, 1}

\* two registries P1 = [a] and P2 = [b]. Thread t1 owns a Chain over the
\* pool of P1; thread t2 owns MultiChain(P2, P1, pool_acquire_timeout=tmo),
\* whose Chains are built with pool_acquire_timeout=1 and whose current
\* Chain is the one over P1
MultiInit ==
    /\ InitPool(NoOptions, <<"a">>)
    /\ InitOther(<<"b">>)
    /\ InitChains([c \in Chains |->
            IF c = "c1" THEN ChainOptions("t1", NoProxy, None)
            ELSE IF c = "c2" THEN ChainOptions("t2", NoProxy, 1)
            ELSE [ChainOptions("t2", NoProxy, 1) EXCEPT !.proxies = 2]])
    /\ _chains = <<"c3", "c2">>
    /\ \E tmo \in MultiTimeouts :
            multi = [owner |-> "t2", _pool_acquire_timeout |-> tmo, start |-> None]

MultiNext ==
    \/ \E c \in Chains : GetPath(c)
    \/ \E c \in Chains : Switch(c, FALSE, None, "None", TRUE)
    \/ \E c \in Chains : ChainWake(c)
    \/ \E t \in Threads : MultiCall(t)
    \/ \E t \in Threads : MultiRetry(t)
    \/ \E t \in Threads : MultiWake(t)
    \/ \E t \in Threads, holdout \in Holdouts, lazy \in BOOLEAN :
            MultiSwitch(t, FALSE, holdout, "None", lazy)
    \/ \E t \in Threads, holdout \in Holdouts, r \in Reasons, lazy \in BOOLEAN :
            MultiSwitch(t, TRUE, holdout, r, lazy)
    \/ Tick

\* the owner of the MultiChain goes on running its loop, waits return and
\* time passes
MultiSpec ==
    /\ MultiInit
    /\ [][MultiNext]_vars
    /\ WF_vars(Tick)
    /\ \A t \in Threads : WF_vars(MultiWake(t)) /\ WF_vars(MultiRetry(t))

\* the scheduler runs every thread whose wait can return, and time passes
FairSpec == Init /\ [][FairNext]_vars /\ WF_vars(Tick) /\ \A t \in Threads : WF_vars(Wake(t))

\* proxy files that name an address on two lines: read_file hands every
\* line on, and neither Proxies nor the pool drops a repeated one
DupLists == {<<"a", "a">>, <<"a", "b", "a">>}

DupInit == NoChains /\ \E list \in DupLists : InitPool(NoOptions, list)

DupSpec == DupInit /\ [][FairNext]_vars

\* the statistics the stats file holds when the pool is built over a
\* blacklist file that names a and b: none, of a only, and of both with
\* different or equal ok // fail
RescueStats ==
    LET st(ok, fail) == [uptime |-> <<ok, fail>>, last_holdout |-> None,
                         last_good_holdout |-> None]
    IN  {<<>>,
         [p \in {"a"} |-> st(1, 1)],
         [p \in {"a", "b"} |-> IF p = "a" THEN st(0, 1) ELSE st(2, 1)],
         [p \in {"a", "b"} |-> IF p = "a" THEN st(3, 2) ELSE st(1, 0)],
         [p \in {"a", "b"} |-> IF p = "a" THEN st(2, 0) ELSE st(5, 2)]}

\* Proxies(proxies_file=..., options={"blacklist": ..., "stats": ...}): the
\* blacklist file names a and b, in this order
RescueInit ==
    /\ NoChains
    /\ \E persisted \in RescueStats :
            InitPoolFull(NoOptions, <<"a", "b", "c">>, persisted,
                         <<<<"a", "ban">>, <<"b", "ban">>>>)

RescueSpec == RescueInit /\ [][FairNext]_vars

\* threads that share one registry call acquire and release of its pool
\* and get_random_address, with every lock taken and given up in its place
LockInit == NoChains /\ InitPool(NoOptions, <<"a", "b">>)

LockNext ==
    \/ \E t \in Threads, tmo \in Timeouts : EnterAcquire(t, tmo)
    \/ \E t \in Threads : LockedPass(t)
    \/ \E t \in Threads : LockedWake(t)
    \/ \E t \in Threads, holdout \in Holdouts : LockedRelease(t, FALSE, holdout, "None")
    \/ \E t \in Threads : EnterAutoRefresh(t)
    \/ \E t \in Threads : StatAndLoad(t)
    \/ \E t \in Threads : CleanupAndStamp(t)
    \/ Tick
    \/ \E list \in Lists : RewriteFile(list)

\* a thread gets the lock it stands at if the lock is free again and again
\* (no thread starves at a lock), and time passes
LockSpec ==
    /\ LockInit
    /\ [][LockNext]_vars
    /\ WF_vars(Tick)
    /\ \A t \in Threads :
            /\ SF_vars(LockedPass(t))
            /\ SF_vars(LockedWake(t))
            /\ WF_vars(StatAndLoad(t))
            /\ SF_vars(CleanupAndStamp(t))

\* three threads share the pool of the unchanging list a: one of them can
\* release while the two others are inside Condition.wait
ThreeThreads == Threads \cup {"t3"}

WaitInit == NoChains /\ InitPoolOf(ThreeThreads, NoOptions, <<"a">>, <<>>, <<>>)

WaitNext ==
    \/ \E t \in ThreeThreads, tmo \in Timeouts : Acquire(t, tmo)
    \/ \E t \in ThreeThreads : Wake(t)
    \/ \E t \in ThreeThreads, holdout \in Holdouts : Release(t, FALSE, holdout, "None")
    \/ Tick

\* the scheduler runs every thread whose wait can return, and time passes
WaitSpec ==
    /\ WaitInit
    /\ [][WaitNext]_vars
    /\ WF_vars(Tick)
    /\ \A t \in ThreeThreads : WF_vars(Wake(t))

\* threads that release an address a second time, after another thread
\* has acquired it
DoubleNext ==
    \/ FairNext
    \/ \E t \in Threads, proxy \in Addr, holdout \in Holdouts :
            ReleaseByNonHolder(t, proxy, FALSE, holdout, "None")

DoubleSpec == Init /\ [][DoubleNext]_vars

\* pools built with the option sets, over a list that does not change
OptFairSpec == OptInit /\ [][FairNext]_vars

TypeOK ==
    /\ used \subseteq Addr
    /\ Range(free) \subseteq Addr
    /\ Keys(cooling_down) \subseteq Addr
    /\ Keys(blacklist) \subseteq Addr
    /\ DOMAIN stats \subseteq Addr
    /\ now \in 0..MaxTime
    /\ pc \in [Threads -> {"idle", "waiting", "switching", "trying",
                          "in_acquire", "in_auto_refresh", "at_cleanup"}]
    /\ _current_pool_proxy \in [Chains -> Addr \cup {NoProxy}]
    /\ finalized \subseteq Chains
    /\ held \in [Threads -> Addr \cup {NoProxy}]

\* ------------------------------------------------------------ properties
\* acquire has just returned an address to thread t
AcquiredBy(t) == held[t] = NoProxy /\ held'[t] # NoProxy
\* acquire has just raised NoFreeProxies in thread t
Raised(t) == pc[t] = "waiting" /\ pc'[t] = "idle" /\ held'[t] = NoProxy
\* a pass of the loop of acquire would return an address now
Takeable == \E r \in Iteration(State) : r.ret # NoProxy

\* C1: mutual exclusion. No address is held by two threads at once, and
\* acquire never returns an address that is in used or held by a thread;
\* the address it returns is in used and in neither free nor cooling.
C1_MutualExclusion ==
    /\ [](\A t, u \in Threads : (t # u /\ held[t] # NoProxy) => held[t] # held[u])
    /\ [][\A t \in Threads : AcquiredBy(t) =>
            /\ held'[t] \notin used
            /\ \A u \in Threads : held[u] # held'[t]
            /\ held'[t] \in used'
            /\ held'[t] \notin Range(free')
            /\ held'[t] \notin Keys(cooling_down')]_vars

C1_Witness ==
    /\ held["t1"] # NoProxy /\ held["t2"] # NoProxy
    /\ {held["t1"], held["t2"]} \subseteq used
    /\ last.op = "acquire"

\* C2: cooldown guarantee. acquire never returns an address that is in
\* cooling with a deadline that is still ahead, blacklisted or not, taken
\* from free or rescued from the blacklist.
C2_CooldownGuarantee ==
    \A r \in Iteration(State) :
        r.ret # NoProxy =>
            ~(r.ret \in Keys(cooling_down) /\ Get(cooling_down, r.ret) > now)

\* an address that was blacklisted and cooling has been rescued after its
\* deadline, while another address is still cooling
C2_Witness ==
    /\ last.op = "acquire" /\ last.how = "blacklist"
    /\ stats[last.p].last_holdout # None
    /\ cooling_down # <<>>

\* C3: blacklist guarantee. acquire returns a blacklisted address only
\* when free is empty after the reconciliation and the promotion of cooled
\* addresses.
C3_BlacklistGuarantee ==
    \A M \in Prepare(State) :
        /\ Take(M).ret \in Keys(blacklist) => M.free = <<>>
        /\ M.free # <<>> => Take(M).ret \in Range(M.free) \ Keys(M.blacklist)

\* an address came from free while another one is blacklisted and not cooling
C3_Witness ==
    /\ last.op = "acquire" /\ last.how = "free"
    /\ Keys(blacklist) \ Keys(cooling_down) # {}

\* C4: blacklist rescue. When acquire finds free empty and a blacklisted
\* address that is not cooling, it returns such an address without
\* waiting, removes exactly that entry from the blacklist, adds the
\* address to used and changes no statistics.
C4_BlacklistRescue ==
    \A M \in Prepare(State) :
        (M.free = <<>> /\ Keys(M.blacklist) \ Keys(M.cooling_down) # {}) =>
            LET r == Take(M)
            IN  /\ r.ret \in Keys(M.blacklist) \ Keys(M.cooling_down)
                /\ r.S.blacklist = SelectSeq(M.blacklist, LAMBDA e : e[1] # r.ret)
                /\ r.S.used = M.used \cup {r.ret}
                /\ r.S.stats = M.stats
                /\ r.S.free = M.free
                /\ r.S.cooling_down = M.cooling_down

\* an address was rescued and another one stayed blacklisted
C4_Witness ==
    /\ last.op = "acquire" /\ last.how = "blacklist"
    /\ last.p \in used
    /\ blacklist # <<>>

C6_WaitersWoken ==
    \A t \in Threads : (pc[t] = "waiting" /\ Takeable) ~> (pc[t] = "idle" \/ ~Takeable)

\* C7 as stated: after release(p, bad=False, holdout=None) of an address in
\* used, p is back in free.
C7_RoundTripAlways ==
    \A p \in used : p \in Range(release(State, p, FALSE, None, "None").free)

\* C7 amended: in a pool without default_holdout and without smart
\* holdout, release(p, bad=False, holdout=None) of an address in used puts
\* p at the back of free, and when free was empty and no refresh is due the
\* next acquire returns p.
C7_RoundTrip ==
    \A p \in used :
        (~options.smart_holdout /\ options.default_holdout = None) =>
            LET S == release(State, p, FALSE, None, "None")
            IN  /\ S.free = Append(free, p)
                /\ (free = <<>> /\ mtime = last_auto_refresh) =>
                        \A r \in Iteration(S) : r.ret = p

\* an address released without holdout has been acquired again from free
C7_Witness ==
    /\ last.op = "acquire" /\ last.how = "free"
    /\ options.default_holdout = None
    /\ last.p \in DOMAIN stats
    /\ stats[last.p].uptime[1] > 0 /\ stats[last.p].last_holdout = None

\* C8: a stale or repeated release is a silent no-op. release of an
\* address that is not in used leaves free, used, cooling, blacklisted and
\* the statistics unchanged and wakes nobody.
C8_StaleRelease ==
    /\ [](\A p \in Addr \ used, bad \in BOOLEAN, h \in Holdouts, r \in Reasons :
            release(State, p, bad, h, r) = State)
    /\ [][(last'.op = "release" /\ last'.how \in {"stale", "again"}) =>
            UNCHANGED <<free, used, cooling_down, blacklist, stats, notified>>]_vars

\* a thread has released an address that reconciliation had dropped from used
C8_Witness == last.op = "release" /\ last.how = "stale" /\ last.p \notin Range(proxies)

\* C9: partition invariant. free and used are disjoint, cooling is
\* disjoint from free and from used, blacklisted is disjoint from free and
\* from used.
C9_Partition ==
    /\ Range(free) \cap used = {}
    /\ Keys(cooling_down) \cap Range(free) = {}
    /\ Keys(cooling_down) \cap used = {}
    /\ Keys(blacklist) \cap Range(free) = {}
    /\ Keys(blacklist) \cap used = {}

\* one address is cooling and blacklisted while another one is in use
C9_Witness ==
    /\ Keys(cooling_down) \cap Keys(blacklist) # {}
    /\ used # {}

\* C10: every address in free, used, cooling or blacklisted belongs to the
\* list the pool last reconciled against.
C10_WithinObserved ==
    (Range(free) \cup used \cup Keys(cooling_down) \cup Keys(blacklist))
        \subseteq observed_entries

\* the pool has reconciled against a rewritten list that dropped an address
C10_Witness ==
    /\ proxies_modified_at > 1
    /\ "a" \notin observed_entries
    /\ used # {}
    /\ DOMAIN stats # {}

CallerHoldouts == {None, 0, 1, 16, 40}

\* C12: smart-holdout clamping. With smart holdout on and
\* smart_holdout_min <= smart_holdout_max, release(p, ...) of an address in
\* used stores cooling[p] = now + h with smart_holdout_min <= h <=
\* smart_holdout_max, whatever the statistics of p, bad and the caller's
\* holdout are.
C12_SmartClamp ==
    (options.smart_holdout /\ options.smart_holdout_min <= options.smart_holdout_max) =>
        \A p \in used, bad \in BOOLEAN, h \in CallerHoldouts :
            Exact(p, bad) =>
                LET S == release(State, p, bad, h, "ban")
                IN  /\ p \in Keys(S.cooling_down)
                    /\ Get(S.cooling_down, p) - now >= options.smart_holdout_min
                    /\ Get(S.cooling_down, p) - now <= options.smart_holdout_max
                    /\ S.stats[p].last_holdout = Get(S.cooling_down, p) - now

\* a second bad release was cut down to smart_holdout_max
C12_Witness ==
    /\ last.op = "release"
    /\ options.smart_holdout_max = 24
    /\ stats[last.p].uptime = <<0, 2>>
    /\ Get(cooling_down, last.p) - now = 24

\* x cut to [smart_holdout_min, smart_holdout_max]
Clamp(x) ==
    IF x < options.smart_holdout_min THEN options.smart_holdout_min
    ELSE IF x > options.smart_holdout_max THEN options.smart_holdout_max
    ELSE x

\* C13: smart-holdout recurrence. For an address with statistics
\* (lo = last_holdout, g = last_good_holdout) release rests it for the clamp
\* of g if bad and lo < g, of 2 * lo if bad and lo >= g, and of 0.75 * lo if
\* not bad; with smart_holdout_start=10, min=1, max=1000 the bad release
\* after a first holdout of 10 rests it for 20 and the good release after
\* that for 15.
C13_SmartRecurrence ==
    options.smart_holdout =>
        \A p \in used \cap DOMAIN stats, bad \in BOOLEAN, h \in CallerHoldouts :
            Exact(p, bad) =>
                LET lo == stats[p].last_holdout
                    g == stats[p].last_good_holdout
                    S == release(State, p, bad, h, "ban")
                    d == Get(S.cooling_down, p) - now
                IN  /\ (bad /\ lo < g) => d = Clamp(g)
                    /\ (bad /\ lo >= g) => d = Clamp(2 * lo)
                    /\ ~bad => \E x \in 0..lo : 4 * x = 3 * lo /\ d = Clamp(x)
                    /\ (options.smart_holdout_start = 10 /\ lo = 10 /\ g = 10 /\ bad) => d = 20
                    /\ (options.smart_holdout_start = 10 /\ lo = 20 /\ ~bad) => d = 15

\* the releases bad, bad, good of one address with smart_holdout_start=10
\* have been made: it rests for 15
C13_Witness ==
    /\ last.op = "release" /\ last.how = "cooling"
    /\ options.smart_holdout_start = 10
    /\ stats[last.p].uptime = <<1, 2>>
    /\ stats[last.p].last_holdout = 15
    /\ Get(cooling_down, last.p) - now = 15

\* a bad release retreated to the last good holdout
RetreatReached ==
    /\ last.op = "release" /\ last.how = "both"
    /\ options.smart_holdout_start = 16
    /\ stats[last.p].uptime = <<1, 2>>
    /\ stats[last.p].last_holdout = 16

\* C14 as stated: with smart holdout on, the first release of an address
\* (no statistics yet) rests it for smart_holdout_start.
C14_FirstIsStart ==
    options.smart_holdout =>
        \A p \in used \ DOMAIN stats, bad \in BOOLEAN, h \in CallerHoldouts :
            Get(release(State, p, bad, h, "ban").cooling_down, p) - now
                = options.smart_holdout_start

\* C14 amended: with smart holdout on, the first release of an address
\* rests it for the caller's holdout (the applicable default if the caller
\* passes none or force_defaults is set), or for smart_holdout_start if that
\* is null or 0, cut to [smart_holdout_min, smart_holdout_max].
C14_FirstHoldout ==
    options.smart_holdout =>
        \A p \in used \ DOMAIN stats, bad \in BOOLEAN, h \in CallerHoldouts :
            LET given == IF h = None \/ options.force_defaults
                         THEN (IF bad THEN options.default_bad_holdout
                                      ELSE options.default_holdout)
                         ELSE h
                S == release(State, p, bad, h, "ban")
            IN  Get(S.cooling_down, p) - now =
                    Clamp(IF given \in {None, 0} THEN options.smart_holdout_start ELSE given)

\* an address was released for the first time, without a holdout of the
\* caller or a default, and rests for smart_holdout_start
C14_Witness ==
    /\ last.op = "release" /\ last.how \in {"cooling", "both"}
    /\ options.smart_holdout /\ options.default_holdout = None
    /\ stats[last.p].uptime[1] + stats[last.p].uptime[2] = 1
    /\ stats[last.p].last_holdout = options.smart_holdout_start
    /\ Get(cooling_down, last.p) = now + options.smart_holdout_start

\* C15: effective holdout with smart holdout off. If the caller's holdout
\* is None or force_defaults is set, release rests the address for
\* default_bad_holdout when bad and for default_holdout otherwise, else for
\* the caller's holdout; with force_defaults the caller's value makes no
\* difference, and a holdout of None gives no cooldown.
C15_EffectiveHoldout ==
    ~options.smart_holdout =>
        \A p \in used, bad \in BOOLEAN, h \in CallerHoldouts :
            LET eff == IF h = None \/ options.force_defaults
                       THEN (IF bad THEN options.default_bad_holdout
                                    ELSE options.default_holdout)
                       ELSE h
                S == release(State, p, bad, h, "ban")
            IN  /\ eff # None =>
                    (p \in Keys(S.cooling_down) /\ Get(S.cooling_down, p) = now + eff)
                /\ eff = None => S.cooling_down = cooling_down
                /\ (eff = None /\ ~bad) => S.free = Append(free, p)
                /\ S.stats[p].last_holdout = eff
                /\ options.force_defaults => S = release(State, p, bad, None, "ban")

\* in a pool with force_defaults a bad release has rested the address for
\* default_bad_holdout, and a good one has returned an address to free
C15_Witness ==
    /\ options.force_defaults
    /\ last.op = "release" /\ last.how = "both"
    /\ Get(cooling_down, last.p) = now + options.default_bad_holdout
    /\ \E q \in DOMAIN stats : stats[q].uptime[1] > 0 /\ stats[q].last_holdout = None

\* C16: reconciliation completeness. An address that the registry list does
\* not hold after the refresh of this pass - removed by an earlier refresh,
\* inside or outside the pool, or by this one - is not returned by acquire,
\* whichever of free, used, cooling and blacklisted it is in.
C16_NoRemovedAddress ==
    \A r \in Iteration(State) :
        /\ r.ret # NoProxy => r.ret \in Range(r.S.proxies)
        /\ \A p \in Addr \ Range(proxies) :
                (mtime = last_auto_refresh \/ p \notin Range(file)) => r.ret # p

\* acquire has returned an address of the list after a refresh had removed
\* an address that a thread still holds
C16_Witness ==
    /\ last.op = "acquire"
    /\ last.p \in Range(proxies)
    /\ "a" \notin Range(proxies) \cup used
    /\ \E t \in Threads : held[t] = "a"
    /\ last_auto_refresh = mtime /\ modified_at = 2

\* C17: reconciliation result. When the pool reconciles with a changed
\* registry list R, then blacklisted, cooling, used and stats hold no key
\* outside R, free holds exactly the addresses of R that are not in used,
\* blacklisted or cooling (so an address newly added to R is in free), and
\* the pool has observed the registry's generation.
C17_ReconciliationResult ==
    _is_proxies_changed(_auto_refresh(State)) =>
        \A M \in _remove_outdated(_auto_refresh(State)) :
            LET R == Range(M.proxies)
            IN  /\ (Keys(M.blacklist) \cup Keys(M.cooling_down) \cup M.used
                        \cup DOMAIN M.stats) \subseteq R
                /\ Range(M.free) =
                        R \ (M.used \cup Keys(M.blacklist) \cup Keys(M.cooling_down))
                /\ M.proxies_modified_at = M.modified_at

\* C18: a failed refresh is harmless and invisible. While proxies_url fails
\* after all retries (HTTP error or socket timeout), the refresh of a pass
\* of acquire leaves the registry list, its generation and the pool's sets
\* unchanged, and no exception leaves acquire: the pass takes an address of
\* the old list or waits.
C18_FailedRefreshHarmless ==
    file \in {HTTPError, SocketTimeout} =>
        /\ _auto_refresh(State).proxies = proxies
        /\ _auto_refresh(State).modified_at = modified_at
        /\ _auto_refresh(State).free = free
        /\ _auto_refresh(State).used = used
        /\ _auto_refresh(State).cooling_down = cooling_down
        /\ _auto_refresh(State).blacklist = blacklist
        /\ _auto_refresh(State).stats = stats
        /\ _auto_refresh(State).raised = "None"
        /\ \A r \in Iteration(State) : r.how \in {"free", "blacklist", "wait"}

\* the refresh of the registry is due: _auto_refresh calls refresh
RefreshDue ==
    IF options.proxies_url
    THEN /\ options.auto_refresh_period # None
         /\ (last_auto_refresh = None \/ now - last_auto_refresh >= options.auto_refresh_period)
    ELSE mtime # last_auto_refresh

\* C19: generation monotonicity. The registry's _modified_at never
\* decreases, grows with every successful refresh (whether or not the list
\* differs) and stays when the refresh fails; the pool never observes a
\* generation ahead of the registry's, a pass of acquire leaves the pool
\* with the registry's generation, and it reconciles exactly when the two
\* differ.
C19_GenerationMonotone ==
    /\ [](proxies_modified_at <= modified_at)
    /\ []((RefreshDue /\ file \in {HTTPError, SocketTimeout}) =>
            _auto_refresh(State).modified_at = modified_at)
    /\ []((RefreshDue /\ file \notin {HTTPError, SocketTimeout}) =>
            (/\ _auto_refresh(State).modified_at > modified_at
             /\ _auto_refresh(State).proxies = file))
    /\ [](~RefreshDue => _auto_refresh(State) = State)
    /\ [][/\ modified_at' >= modified_at
          /\ (proxies' # proxies) => (modified_at' > modified_at)
          /\ proxies_modified_at' >= proxies_modified_at
          /\ (last'.op \in {"acquire", "wait"}) => (proxies_modified_at' = modified_at')
          /\ (last'.op \in {"acquire", "wait"} /\ modified_at' = proxies_modified_at)
               => (observed_entries' = observed_entries /\ used \subseteq used')
          /\ (last'.op \in {"acquire", "wait"} /\ modified_at' # proxies_modified_at)
               => (observed_entries' = Range(proxies'))]_vars

\* the URL has answered a new list, the registry has moved to its third
\* generation and the pool has reconciled with it
C19_Witness ==
    /\ modified_at = 2 /\ proxies_modified_at = 2
    /\ proxies = <<"b", "c">>
    /\ observed_entries = {"b", "c"}

\* C20: between the operations (no pool or registry lock is held) the keys
\* of the blacklist, cooldown and stats maps are all in the registry's
\* current list, also when the registry is refreshed outside the pool.
C20_MapsWithinEntries ==
    (Keys(blacklist) \cup Keys(cooling_down) \cup DOMAIN stats) \subseteq Range(proxies)

\* C21: scoped release through Chain. Every address a pool-backed Chain has
\* acquired is released exactly once: the Chain gives up its address only
\* in a switch or in finalize, that step releases exactly this address
\* from used, a switch or finalize of a Chain that holds nothing changes
\* no pool state, and a finalized Chain holds nothing.
C21_ScopedRelease ==
    /\ [](\A c \in finalized : _current_pool_proxy[c] = NoProxy)
    /\ [][\A c \in Chains :
            (_current_pool_proxy[c] # NoProxy /\ _current_pool_proxy'[c] # _current_pool_proxy[c]) =>
                /\ last'.op \in {"switch", "finalize"}
                /\ last'.p = _current_pool_proxy[c]
                /\ _current_pool_proxy'[c] = NoProxy
                /\ _current_pool_proxy[c] \in used
                /\ used' = used \ {_current_pool_proxy[c]}]_vars
    /\ [][(last'.op \in {"switch", "finalize"} /\ last'.p = NoProxy) =>
            UNCHANGED <<free, used, cooling_down, blacklist, stats, notified>>]_vars
    /\ [][\A c \in Chains : (c \in finalized' \ finalized) =>
            /\ last'.op = "finalize"
            /\ _current_pool_proxy[c] \notin used'
            /\ _current_pool_proxy'[c] = NoProxy]_vars

\* both Chains are finalized, the second one while it held an address
C21_Witness ==
    /\ finalized = {"c1", "c2"}
    /\ last.op = "finalize" /\ last.p # NoProxy
    /\ last.p \in Range(free)
    /\ used = {}

\* C22: Chain.switch(bad, holdout, reason, lazy) clears the path and
\* releases the held address with exactly these parameters, and only then,
\* if not lazy, acquires; when that acquire raises NoFreeProxies the Chain
\* holds nothing, its path is empty and the pool is as the wait left it.
C22_SwitchOrder ==
    /\ [][\A c \in Chains, bad \in BOOLEAN, holdout \in Holdouts, reason \in Reasons \cup {"None"} :
            (last'.op = "switch" /\ last'.args = <<c, bad, holdout, reason>>) =>
                LET p == _current_pool_proxy[c]
                    S == release(State, p, bad, holdout, reason)
                IN  /\ last'.p = p
                    /\ __path'[c] = <<>>
                    /\ _current_pool_proxy'[c] = NoProxy
                    /\ <<free', used', cooling_down', blacklist', stats'>> =
                            <<S.free, S.used, S.cooling_down, S.blacklist, S.stats>>
                    /\ pc'[chain[c].owner] = IF last'.how = "lazy" THEN "idle" ELSE "switching"]_vars
    /\ [](\A c \in Chains : (chain[c].owner # "none" /\ pc[chain[c].owner] \in {"switching", "waiting"}) =>
            (_current_pool_proxy[c] = NoProxy /\ __path[c] = <<>>))
    /\ [][\A c \in Chains :
            (chain[c].owner # "none" /\ pc[chain[c].owner] = "switching"
                /\ pc'[chain[c].owner] # "switching") => last'.op \in {"acquire", "wait"}]_vars
    /\ [][\A c \in Chains :
            (last'.op = "NoFreeProxies" /\ chain[c].owner # "none"
                /\ pc[chain[c].owner] = "waiting" /\ pc'[chain[c].owner] = "idle") =>
                /\ _current_pool_proxy'[c] = NoProxy
                /\ __path'[c] = <<>>
                /\ UNCHANGED <<free, used, cooling_down, blacklist, stats>>]_vars

\* a switch that was not lazy has released its address to cooling and then
\* failed with NoFreeProxies
C22_Witness ==
    /\ last.op = "NoFreeProxies"
    /\ _current_pool_proxy["c2"] = NoProxy /\ __path["c2"] = <<>>
    /\ "c2" \notin finalized
    /\ \E p \in DOMAIN stats : stats[p].last_holdout = 1
    /\ Cardinality(DOMAIN stats) = 2

\* C23: a pool-backed Chain holds at most one acquired address. Every
\* address in used is the current address of exactly one Chain, _path
\* acquires only when the Chain holds nothing, and a Chain that holds an
\* address answers get_path from its cached path, which ends in that address.
C23_AtMostOne ==
    /\ used \subseteq {_current_pool_proxy[c] : c \in Chains}
    /\ \A c, d \in Chains :
            (c # d /\ _current_pool_proxy[c] # NoProxy) =>
                _current_pool_proxy[c] # _current_pool_proxy[d]
    /\ \A c \in Chains :
            /\ __path[c] = <<>> => _current_pool_proxy[c] = NoProxy
            /\ _current_pool_proxy[c] # NoProxy =>
                    (/\ __path[c] # <<>>
                     /\ __path[c][Len(__path[c])] = _current_pool_proxy[c])

\* get_path has answered from the cached path while both Chains hold an address
C23_Witness ==
    /\ last.op = "get_path" /\ last.how = "cached"
    /\ used = {"a", "b"}
    /\ {_current_pool_proxy["c1"], _current_pool_proxy["c2"]} = {"a", "b"}

\* C24: path invariant of Chain. After every operation of a Chain its
\* cached path is [gateway (if configured), current] when a current
\* address is set, and empty when none is set.
C24_PathInvariant ==
    \A c \in Chains :
        /\ _current_pool_proxy[c] # NoProxy =>
                __path[c] = _build_path(c, _current_pool_proxy[c])
        /\ _current_pool_proxy[c] = NoProxy => __path[c] = <<>>

\* the same for the Chains that have not been finalized
C24_LivePathInvariant ==
    \A c \in Chains \ finalized :
        /\ _current_pool_proxy[c] # NoProxy =>
                __path[c] = _build_path(c, _current_pool_proxy[c])
        /\ _current_pool_proxy[c] = NoProxy => __path[c] = <<>>

\* the ring q2 is the ring q with every Chain moved on by one position
RotatedByOne(q, q2) ==
    /\ Len(q2) = Len(q)
    /\ \A i \in 1..Len(q) : q2[(i % Len(q)) + 1] = q[i]

\* the acquire of the current Chain has just failed with NoFreeProxies in
\* the owner of the MultiChain
AcquireFailed ==
    /\ multi.owner # "none"
    /\ pc[multi.owner] = "waiting" /\ pc'[multi.owner] # "waiting"
    /\ _current_pool_proxy'[_current] = NoProxy

\* every pass of the acquire of Chain c would return an address now
Supply(c) == \A r \in Iteration(PoolOf(c)) : r.ret # NoProxy

\* the Chain that becomes current with the next rotation
NextChain == _rotate(_chains)[Len(_chains)]

\* C25: MultiChain rotate-on-failure. When the acquire of the current
\* Chain fails with NoFreeProxies inside a wrapped operation, the ring
\* rotates by exactly one position and the operation is tried again on
\* the new current Chain; NoFreeProxies leaves the operation only when
\* pool_acquire_timeout is set and the time since the start of the loop
\* exceeds it; the ring rotates at no other time except in switch; and
\* without pool_acquire_timeout an operation whose next Chain has a pool
\* of its own that can supply an address ends holding an address.
C25_RotateOnFailure ==
    /\ [][AcquireFailed =>
            /\ RotatedByOne(_chains, _chains')
            /\ now - start[multi.owner] > chain[_current].pool_acquire_timeout
            /\ UNCHANGED <<free, used, cooling_down, blacklist, stats, other,
                           _current_pool_proxy, __path>>
            /\ IF pc'[multi.owner] = "idle"
               THEN /\ last'.op = "NoFreeProxies"
                    /\ multi._pool_acquire_timeout # None
                    /\ now - multi.start > multi._pool_acquire_timeout
               ELSE /\ pc'[multi.owner] = "trying"
                    /\ (multi._pool_acquire_timeout = None
                            \/ now - multi.start <= multi._pool_acquire_timeout)]_vars
    /\ [][(multi.owner # "none" /\ pc[multi.owner] = "trying" /\ pc'[multi.owner] # "trying") =>
            /\ _chains' = _chains
            /\ \A c \in Chains \ {_current} : _current_pool_proxy'[c] = _current_pool_proxy[c]
            /\ \/ pc'[multi.owner] = "waiting" /\ _current_pool_proxy'[_current] = NoProxy
               \/ pc'[multi.owner] = "idle" /\ __path'[_current] # <<>>]_vars
    /\ [][_chains' # _chains => (AcquireFailed \/ last'.op = "multiswitch")]_vars
    /\ (/\ multi._pool_acquire_timeout = None
        /\ chain[NextChain].proxies = 2 /\ Supply(NextChain)
        /\ pc[multi.owner] = "waiting" /\ start[multi.owner] + 2 <= MaxTime)
            ~> (pc[multi.owner] = "idle" /\ __path[_current] # <<>>)

\* the pool of P1 was exhausted, the acquire on its Chain timed out, the
\* MultiChain rotated to the Chain over P2 and acquired b there
C25_Witness ==
    /\ last.op = "acquire" /\ last.p = "b"
    /\ _chains = <<"c2", "c3">>
    /\ _current_pool_proxy = [c \in Chains |->
            IF c = "c1" THEN "a" ELSE IF c = "c3" THEN "b" ELSE NoProxy]
    /\ now >= 2
    /\ DOMAIN stats = {} /\ DOMAIN other.stats = {}

\* the collections of the pool of Chain c after the step
PoolAfter(c) ==
    IF chain[c].proxies = 1
    THEN <<free', used', cooling_down', blacklist', stats'>>
    ELSE <<other'.free, other'.used, other'.cooling_down, other'.blacklist, other'.stats>>

\* C26: MultiChain.switch ordering. The current Chain is switched lazily:
\* its address is released with the given bad, holdout and reason, its
\* path is cleared and nothing is acquired; the ring rotates by one in
\* the same call; only then, if the call is not lazy, the path of the new
\* current Chain is built, and only the current Chain ever acquires.
C26_MultiSwitchOrder ==
    /\ [][\A c \in Chains, bad \in BOOLEAN, holdout \in Holdouts, reason \in Reasons \cup {"None"} :
            (last'.op = "multiswitch" /\ last'.args = <<c, bad, holdout, reason>>) =>
                LET p == _current_pool_proxy[c]
                    S == release(PoolOf(c), p, bad, holdout, reason)
                IN  /\ c = _current
                    /\ last'.p = p
                    /\ PoolAfter(c) = <<S.free, S.used, S.cooling_down, S.blacklist, S.stats>>
                    /\ __path'[c] = <<>>
                    /\ \A d \in Chains : _current_pool_proxy'[d] =
                            IF d = c THEN NoProxy ELSE _current_pool_proxy[d]
                    /\ RotatedByOne(_chains, _chains')
                    /\ pc'[multi.owner] = IF last'.how = "lazy" THEN "idle" ELSE "trying"]_vars
    /\ [][\A c \in Range(_chains) :
            (_current_pool_proxy[c] = NoProxy /\ _current_pool_proxy'[c] # NoProxy) =>
                (c = _current /\ _chains' = _chains)]_vars

\* a switch that was not lazy has released a to cooling, rotated, and
\* built the path of the new current Chain with b
C26_Witness ==
    /\ last.op = "acquire" /\ last.p = "b"
    /\ _chains = <<"c2", "c3">>
    /\ _current_pool_proxy["c2"] = NoProxy /\ __path["c2"] = <<>>
    /\ "a" \in Keys(cooling_down)
    /\ _current_pool_proxy["c3"] = "b"

\* C27: after any load the entries of the registry name no address twice,
\* so the free queue of the pool never holds the same address twice.
C27_EntriesUnique == NoDup(proxies) /\ NoDup(free)

\* both threads hold the address a at the same time
C27_HeldTwice == held["t1"] = "a" /\ held["t2"] = "a"

IsPrefix(s, t) == Len(s) <= Len(t) /\ SubSeq(t, 1, Len(s)) = s

\* the addresses whose cooling has ended and that are not blacklisted, in
\* the order of cooling_down
CooledBack ==
    LET back == SelectSeq(cooling_down,
                    LAMBDA e : now >= e[2] /\ e[1] \notin Keys(blacklist))
    IN  [i \in DOMAIN back |-> back[i][1]]

\* C28: free is a FIFO queue. While the list does not change, an acquire
\* that takes from free takes the address at the front, after the
\* addresses promoted from cooling have been appended at the back; a
\* release with no holdout appends the address at the back; and no other
\* step changes free, so that addresses leave free in the order in which
\* they entered it.
C28_FreeIsFIFO ==
    /\ [][IF \E t \in Threads : held'[t] # held[t] /\ held'[t] # NoProxy /\ last'.how = "free"
          THEN \A t \in Threads : (held'[t] # held[t]) =>
                    /\ <<held'[t]>> \o free' = free \o CooledBack
                    /\ free # <<>> => held'[t] = Head(free)
          ELSE IsPrefix(free, free')]_vars
    /\ [][\A p \in Addr :
            (last'.op = "release" /\ last'.how = "free" /\ last'.p = p) =>
                free' = Append(free, p)]_vars

\* a and b were taken, b was released before a, and the next acquire took
\* b, the address that had been in free longer
C28_Witness ==
    /\ last = [op |-> "acquire", p |-> "b", how |-> "free"]
    /\ proxies = <<"a", "b">>
    /\ free = <<"a">>
    /\ DOMAIN stats = {"a", "b"}

\* C29: placement after an effective release. For an address p in used
\* and h the effective holdout of release(p, bad, holdout): p leaves used;
\* p is in cooling, with the deadline now + h, iff h is not None; p is
\* blacklisted, with the given reason, iff bad; and p is appended to free,
\* with one notify, iff the release is not bad and h is None.
C29_Placement ==
    \A p \in used, bad \in BOOLEAN, holdout \in CallerHoldouts, reason \in Reasons :
        Exact(p, bad) =>
            LET h == EffectiveHoldout(State, p, bad, holdout)
                S == release(State, p, bad, holdout, reason)
            IN  /\ S.used = used \ {p}
                /\ IF h # None
                   THEN p \in Keys(S.cooling_down) /\ Get(S.cooling_down, p) = now + h
                   ELSE p \notin Keys(S.cooling_down) /\ S.cooling_down = cooling_down
                /\ IF bad
                   THEN p \in Keys(S.blacklist) /\ Get(S.blacklist, p) = reason
                   ELSE p \notin Keys(S.blacklist) /\ S.blacklist = blacklist
                /\ IF ~bad /\ h = None
                   THEN S.free = Append(free, p) /\ S.notify
                   ELSE S.free = free /\ ~S.notify

\* a bad release with a holdout of the caller has put an address into
\* cooling and the blacklist, after a good release without holdout had
\* returned another one to free
C29_Witness ==
    /\ ~options.force_defaults /\ ~options.smart_holdout
    /\ last.op = "release" /\ last.how = "both"
    /\ Get(blacklist, last.p) = "ban"
    /\ Get(cooling_down, last.p) = now + 1
    /\ \E q \in Range(free) \cap DOMAIN stats :
            stats[q].uptime = <<1, 0>> /\ stats[q].last_holdout = None

\* ok + fail of address p in the statistics st; nothing is recorded for
\* an address without statistics
Recorded(st, p) == IF p \in DOMAIN st THEN st[p].uptime[1] + st[p].uptime[2] ELSE 0

\* C30: stats accounting. An effective release of p adds one to exactly
\* one counter of p (ok if not bad, fail if bad), sets last_holdout to the
\* effective holdout h, sets last_good_holdout to h when the release is not
\* bad or h is not None and at least the previous last_good_holdout (and
\* leaves it otherwise), and leaves the statistics of every other address
\* as they are; and in every step ok + fail of p grows by one if the step
\* is an effective release of p and does not change otherwise while the
\* statistics of p exist.
C30_StatsAccounting ==
    /\ [](\A p \in used, bad \in BOOLEAN, holdout \in CallerHoldouts :
            Exact(p, bad) =>
                LET h == EffectiveHoldout(State, p, bad, holdout)
                    S == release(State, p, bad, holdout, "ban")
                    old == IF p \in DOMAIN stats THEN stats[p] ELSE NoStat
                    prev == IF old.last_good_holdout \in {None, Absent}
                            THEN 0 ELSE old.last_good_holdout
                IN  /\ DOMAIN S.stats = DOMAIN stats \cup {p}
                    /\ S.stats[p].uptime =
                            IF bad THEN <<old.uptime[1], old.uptime[2] + 1>>
                                   ELSE <<old.uptime[1] + 1, old.uptime[2]>>
                    /\ S.stats[p].last_holdout = h
                    /\ S.stats[p].last_good_holdout =
                            IF ~bad \/ (h # None /\ h >= prev) THEN h
                            ELSE old.last_good_holdout
                    /\ \A q \in DOMAIN stats \ {p} : S.stats[q] = stats[q])
    /\ [][\A p \in Addr :
            IF last'.op = "release" /\ last'.p = p /\ p \in used
            THEN p \in DOMAIN stats' /\ Recorded(stats', p) = Recorded(stats, p) + 1
            ELSE p \in DOMAIN stats' => Recorded(stats', p) = Recorded(stats, p)]_vars

\* an address was released with holdout 1 and then as bad without
\* holdout: one ok, one fail, and last_good_holdout keeps the earlier value
C30_Witness ==
    /\ last.op = "release"
    /\ last.p \in DOMAIN stats
    /\ stats[last.p] = [uptime |-> <<1, 1>>, last_holdout |-> None, last_good_holdout |-> 1]

\* ok // fail if fail > 0, ok if fail = 0, +infinity without statistics
reliability(S, p) ==
    IF p \notin DOMAIN S.stats THEN inf
    ELSE IF S.stats[p].uptime[2] > 0
    THEN S.stats[p].uptime[1] \div S.stats[p].uptime[2]
    ELSE S.stats[p].uptime[1]

\* C31: rescue selection. The blacklisted address acquire returns is one
\* that is not cooling, no blacklisted address that is not cooling is more
\* reliable, and among the equally reliable ones it is the earliest in
\* the order of the blacklist; acquire rescues only when free is empty,
\* and then whenever such an address exists.
C31_RescueSelection ==
    \A M \in Prepare(State) :
        LET r == Take(M)
            cand == Keys(M.blacklist) \ Keys(M.cooling_down)
        IN  /\ r.how = "blacklist" =>
                /\ M.free = <<>>
                /\ r.ret \in cand
                /\ \A q \in cand :
                    \/ reliability(M, q) < reliability(M, r.ret)
                    \/ /\ reliability(M, q) = reliability(M, r.ret)
                       /\ IndexOf(M.blacklist, r.ret) <= IndexOf(M.blacklist, q)
            /\ (M.free = <<>> /\ cand # {}) => r.how = "blacklist"

\* acquire has rescued b, with statistics, although a is earlier in the
\* blacklist and not cooling: 2 // 1 of b is more than 0 // 1 of a
C31_Witness ==
    /\ last = [op |-> "acquire", p |-> "b", how |-> "blacklist"]
    /\ Keys(blacklist) = {"a"} /\ cooling_down = <<>>
    /\ "a" \in DOMAIN stats /\ stats["a"].uptime = <<0, 1>>
    /\ stats["b"].uptime = <<2, 1>>

\* a set of threads each of which stands at a lock that another thread of
\* the set holds
Deadlocked ==
    \E D \in SUBSET Threads :
        /\ D # {}
        /\ \A t \in D : \E u \in D \ {t} : u \in HoldersOf(WantsLock(t))

\* C32: refresh serialization. No two threads reload at the same time,
\* and a caller of _auto_refresh that finds the refresh mutex held returns
\* from _auto_refresh without reloading.
C32_RefreshSerialization ==
    /\ [](Cardinality(_auto_refresh_lock_holders) <= 1)
    /\ \A t \in Threads :
            (pc[t] = "in_acquire" /\ _auto_refresh_lock_holders # {})
                ~> (pc[t] # "in_acquire")

\* the reloads are serialized and counted: never two threads inside the
\* refresh mutex, and at most one reload for the first call and for each
\* change of the file
C32_OneReloadPerChange ==
    /\ Cardinality(_auto_refresh_lock_holders) <= 1
    /\ modified_at <= mtime + 1
    /\ last_auto_refresh # None => last_auto_refresh <= mtime

\* C33: deadlock freedom. No set of threads sharing one registry is ever
\* such that each stands at a lock another one of them holds.
C33_DeadlockFree == ~Deadlocked

\* C34: no lost wakeup. A thread blocked in acquire with no timeout does
\* not stay blocked forever while an address sits in free: it leaves the
\* wait, or the address is taken.
C34_NoLostWakeup ==
    \A t \in ThreeThreads :
        (pc[t] = "waiting" /\ timeout[t] = None /\ free # <<>>)
            ~> (pc[t] = "idle" \/ free = <<>>)

\* the release of a has notified a waiter whose timeout had expired: it
\* has raised NoFreeProxies, a sits in free, and a thread without timeout
\* is still inside wait(None), not notified
C34_LostWakeup ==
    /\ last.op = "NoFreeProxies"
    /\ free = <<"a">>
    /\ \E t \in ThreeThreads :
            pc[t] = "waiting" /\ timeout[t] = None /\ wake_at[t] = None /\ ~notified[t]

\* C35: a release by a non-holder cannot end another holder's hold. An
\* address a thread holds stays in used, and no other thread holds it,
\* also when a thread that released it earlier releases it again.
C35_HoldSurvives ==
    \A t \in Threads :
        held[t] # NoProxy =>
            /\ held[t] \in used
            /\ \A u \in Threads \ {t} : held[u] # held[t]

\* both threads hold a after the second release of a by its former holder
C35_HandedOutTwice ==
    /\ held["t1"] = "a" /\ held["t2"] = "a"
    /\ stats["a"].uptime = <<2, 0>>

\* the Chains of the MultiChain that hold an acquired address
Holding == {c \in Range(_chains) : _current_pool_proxy[c] # NoProxy}

\* C36: within a MultiChain at most one Chain holds an acquired address,
\* and a Chain that holds one is the current Chain, the back of the ring.
C36_OneHolderIsCurrent ==
    /\ Cardinality(Holding) <= 1
    /\ \A c \in Holding : c = _chains[Len(_chains)]

\* after two switches the ring is back where it began: the Chain over P2
\* held b and gave it up with a holdout, and the Chain over P1, current
\* again, holds a
C36_Witness ==
    /\ _chains = <<"c3", "c2">>
    /\ Holding = {"c2"} /\ _current_pool_proxy["c2"] = "a"
    /\ "b" \in Keys(other.cooling_down)
    /\ pc[multi.owner] = "idle"

\* C37: no address is lost. Once the pool has reconciled with the registry's
\* list, every address of the list is in free, used, cooling or blacklisted,
\* and len(free) + len(used) + the size of the union of cooling and
\* blacklisted is the number of entries.
C37_NoAddressLost ==
    proxies_modified_at = modified_at =>
        /\ Range(proxies) \subseteq
                (Range(free) \cup used \cup Keys(cooling_down) \cup Keys(blacklist))
        /\ Len(free) + Cardinality(used)
                + Cardinality(Keys(cooling_down) \cup Keys(blacklist)) = Len(proxies)

\* the pool has reconciled with a list that gained an address, and the new
\* address is in none of free, used, cooling and blacklisted
C37_AddressLost ==
    /\ proxies_modified_at = modified_at /\ modified_at > 0
    /\ \E p \in Range(proxies) :
            p \notin Range(free) \cup used \cup Keys(cooling_down) \cup Keys(blacklist)
    /\ last.op = "acquire"

====
